---- MODULE Spec2Model ----
(***************************************************************************)
(* A model of the dev-setup installation engine:                           *)
(*   - config.ToolsConfig: LoadToolsConfig, Validate, GetInstallOrder      *)
(*   - installer.ToolInstaller: InstallAll, groupToolsByParallelGroup,     *)
(*     installGroup, installTool                                           *)
(*   - installer.ParallelExecutor: Execute, groupTasks,                    *)
(*     executeParallelGroup, executeTask, GetTaskStatistics                *)
(*   - config.State: LoadState, SaveState, the Mark and Is helpers and     *)
(*     the progress helpers                                                *)
(*   - setup.SetupExecutor: SetupAll                                       *)
(*   - verify.Verifier: VerifyAll                                          *)
(*   - updater.Updater: Update                                             *)
(* Each subsystem has its own specification over the shared variables.     *)
(***************************************************************************)
EXTENDS Integers, Sequences, FiniteSets, TLC

VARIABLES
    yaml,        \* the tool list found in tools.yaml (before validation)
    config,      \* the *ToolsConfig returned by LoadToolsConfig, or NilConfig
    loadErr,     \* "pending" | "none" | "duplicate" | "unknown"
    order1,      \* result of a first call of GetInstallOrder
    order2,      \* result of a second call on the same config
    \* ---- installer.ToolInstaller ----
    dryRun,       \* the --dry-run flag: ToolInstaller.dryRun, SetupExecutor.dryRun
    installPc,    \* InstallAll: "idle" | "running" | "returned_nil" | "returned_err"
    orderedTools, \* InstallAll's orderedTools, err (the GetInstallOrder result)
    toolGroups,   \* InstallAll's toolGroups
    gi,           \* index in toolGroups of the group installGroup is working on
    tstate,       \* per tool, where its installTool call stands
    firstError,   \* installGroup's firstError: name of the failed tool, or ""
    checkResult,  \* per tool, what isToolInstalled returned for it
    \* ---- groupToolsByParallelGroup on its own ----
    glist,        \* an ordered tool list
    ggroups,      \* the groups computed from it
    \* ---- installer.ParallelExecutor ----
    tasks,         \* the task list handed to Execute
    maxConcurrent, \* ParallelExecutor.maxConcurrent
    execPc,        \* Execute: "idle" | "running" | "returned_nil" | "returned_err"
    execGroups,    \* Execute's groups map: group name -> tasks of that name
    remaining,     \* keys of execGroups the range loop has not visited yet
    cur,           \* the key the range loop is at (active: inside the body)
    seqIdx,        \* index of the sequential loop inside the "" group
    tk,            \* per task: pc, attempts made, result, lastErr
    semaphore,     \* executeParallelGroup's semaphore: slots taken in the channel
    parResults,    \* executeParallelGroup's results slice while it runs
    events,        \* per task, the calls the UI received about it, in order
    execErr,       \* the task named by the error Execute returned, or ""
    ctxDone,       \* Execute's ctx: the run-wide deadline has passed
    \* ---- config.State and its file ----
    state,         \* the *State the running command holds
    disk,          \* state.json
    saveWarnings,  \* the "Failed to save state" warnings the UI received
    \* ---- setup.SetupExecutor ----
    setupTasks,    \* SetupConfig.SetupTasks
    setupPc,       \* SetupAll: "idle" | "running" | "returned_nil" | "returned_err"
    si,            \* index in setupTasks of the task the loop is at
    sstate,        \* per setup task, where the loop left it
    setupErr,      \* the task named by the error SetupAll returned, or ""
    \* ---- a command that loads the state and reports progress ----
    loaded,        \* what config.LoadState returned
    toolsTotal,    \* len(toolsConfig.Tools) of the configuration in use
    tasksTotal,    \* len(setupConfig.SetupTasks) of the configuration in use
    progress,      \* what GetInstallProgress and GetSetupProgress returned
    \* ---- verify.Verifier ----
    machine,       \* the facts of the machine the checks look at
    vstate,        \* per run of the verify command, the State it loaded
    verdicts,      \* per run, what VerifyAll returned
    \* ---- GetTaskStatistics ----
    results,       \* the []TaskResult handed to GetTaskStatistics
    statistics,    \* what GetTaskStatistics returned
    \* ---- updater.Updater ----
    release,       \* the ReleaseInfo handed to Update: its assets
    platform,      \* runtime.GOOS and runtime.GOARCH of the running binary
    served,        \* per asset, what its download URL serves
    updPc,         \* where Update is
    fs,            \* the files Update works on: exe, backup and temp
    \* ---- the mark helpers of the State ----
    lastMark,      \* the last call of MarkToolInstalled or MarkTaskConfigured
    \* ---- installer.Installer ----
    stage          \* where RunStage is, and what it made in the state directory

configVars == <<yaml, config, loadErr, order1, order2>>

installVars ==
    <<dryRun, installPc, orderedTools, toolGroups, gi, tstate, firstError,
      checkResult>>

groupVars == <<glist, ggroups>>

execVars ==
    <<tasks, maxConcurrent, execPc, execGroups, remaining, cur, seqIdx, tk,
      semaphore, parResults, events, execErr, ctxDone>>

storeVars == <<state, disk, saveWarnings>>

setupVars == <<setupTasks, setupPc, si, sstate, setupErr>>

loadVars == <<loaded, toolsTotal, tasksTotal, progress>>

verifyVars == <<machine, vstate, verdicts>>

statVars == <<results, statistics>>

updateVars == <<release, platform, served, updPc, fs>>

markVars == <<lastMark>>

stageVars == <<stage>>

serviceVars ==
    <<setupVars, loadVars, verifyVars, statVars, updateVars, markVars,
      stageVars>>

vars ==
    <<configVars, installVars, groupVars, execVars, storeVars, serviceVars>>

\* a nil *ToolsConfig, and an order that has not been computed yet
NilConfig == [nil |-> TRUE, tools |-> <<>>]

NoOrder == [called |-> FALSE, err |-> FALSE, result |-> <<>>]

(***************************************************************************)
(* Bounds and input universes.                                             *)
(***************************************************************************)
MaxTools == 3

ToolNames == {"a", "b", "c"}

\* depends_on lists a tools.yaml entry may carry (one of them repeats a name)
DepLists ==
    {<<>>, <<"a">>, <<"b">>, <<"c">>, <<"a", "b">>, <<"a", "c">>,
     <<"b", "c">>, <<"a", "a">>}

\* config.Tool (tools_config.go:30-48) and its ToolInstall; the install
\* command is "cmd" for a command that may succeed or fail, "true" for one
\* that always exits with 0 and "hang" for one that does not end (the tool
\* has no timeout: installTool then waits for it without a deadline)
Tool(n, d, g, r, c, cmd) ==
    [name |-> n, depends_on |-> d, parallel_group |-> g, required |-> r,
     check |-> c, command |-> cmd]

ResolverTools ==
    {Tool(n, d, "", TRUE, "chk", "cmd") : n \in ToolNames, d \in DepLists}

ResolverConfigs ==
    UNION {[1..k -> ResolverTools] : k \in 0..MaxTools}

(***************************************************************************)
(* Generic helpers.                                                        *)
(***************************************************************************)
Range(s) == {s[i] : i \in 1..Len(s)}

Perms(S) ==
    {s \in [1..Cardinality(S) -> S] : \A i, j \in 1..Cardinality(S) :
                                          s[i] = s[j] => i = j}

NamesOf(ts) == {ts[i].name : i \in 1..Len(ts)}

(***************************************************************************)
(* ToolsConfig.Validate (tools_config.go:99-127).                          *)
(***************************************************************************)
\* the inner "found" scan over tc.Tools, lines 112-118
FoundInTools(ts, dep) == \E j \in 1..Len(ts) : ts[j].name = dep

\* mutant: a dependency must already have been seen (no scan of later tools)
DepKnownNoForward(ts, names, dep) == dep \in names

\* lines 110-119: a dependency is known if seen before or defined anywhere
DepKnown(ts, names, dep) == dep \in names \/ FoundInTools(ts, dep)

RECURSIVE ValidateFrom(_, _, _)
ValidateFrom(ts, i, names) ==
    IF i > Len(ts) THEN "none"
    ELSE IF ts[i].name \in names THEN "duplicate"
    ELSE LET names2 == names \cup {ts[i].name}
             deps == ts[i].depends_on
         IN  IF \E k \in 1..Len(deps) : ~DepKnown(ts, names2, deps[k])
             THEN "unknown"
             ELSE ValidateFrom(ts, i + 1, names2)

Validate(ts) == ValidateFrom(ts, 1, {})

(***************************************************************************)
(* ToolsConfig.GetInstallOrder (tools_config.go:133-187).                  *)
(***************************************************************************)
\* The (dep, tool) pairs in the order the loops of lines 138-146 visit them.
RECURSIVE EdgesFrom(_, _)
EdgesFrom(ts, i) ==
    IF i > Len(ts) THEN <<>>
    ELSE [k \in 1..Len(ts[i].depends_on) |->
              <<ts[i].depends_on[k], ts[i].name>>] \o EdgesFrom(ts, i + 1)

RECURSIVE Dependents(_, _)
Dependents(edges, dep) ==
    IF edges = <<>> THEN <<>>
    ELSE IF Head(edges)[1] = dep
         THEN <<Head(edges)[2]>> \o Dependents(Tail(edges), dep)
         ELSE Dependents(Tail(edges), dep)

\* graph[dep] = append(graph[dep], tool.Name)
BuildGraph(ts) ==
    LET edges == EdgesFrom(ts, 1)
    IN  [d \in NamesOf(ts) |-> Dependents(edges, d)]

\* mutant: lines 139-141 are missing, so a tool without dependencies never
\* gets an inDegree entry
BuildInDegreeNoInit(ts) ==
    LET edges == EdgesFrom(ts, 1)
    IN  [n \in {ts[i].name : i \in {j \in 1..Len(ts) : ts[j].depends_on # <<>>}} |->
            Cardinality({k \in 1..Len(edges) : edges[k][2] = n})]

\* lines 136-146: inDegree[tool.Name] starts at 0 and is incremented once per
\* depends_on entry
BuildInDegree(ts) ==
    LET edges == EdgesFrom(ts, 1)
    IN  [n \in NamesOf(ts) |->
            Cardinality({k \in 1..Len(edges) : edges[k][2] = n})]

\* lines 149-154: the queue is seeded by ranging over the inDegree map, whose
\* iteration order Go leaves unspecified: any order of the zero-degree names.
SeedQueues(inDeg) == Perms({n \in DOMAIN inDeg : inDeg[n] = 0})

\* mutant: a dependent is queued when one dependency is still missing
RECURSIVE RelaxEager(_, _, _)
RelaxEager(dependents, inDeg, queue) ==
    IF dependents = <<>> THEN [inDeg |-> inDeg, queue |-> queue]
    ELSE LET d == Head(dependents)
             deg == inDeg[d] - 1
         IN  RelaxEager(Tail(dependents), [inDeg EXCEPT ![d] = deg],
                        IF deg = 1 THEN Append(queue, d) ELSE queue)

\* lines 162-167: decrement each dependent, enqueue those reaching zero
RECURSIVE Relax(_, _, _)
Relax(dependents, inDeg, queue) ==
    IF dependents = <<>> THEN [inDeg |-> inDeg, queue |-> queue]
    ELSE LET d == Head(dependents)
             deg == inDeg[d] - 1
         IN  Relax(Tail(dependents), [inDeg EXCEPT ![d] = deg],
                   IF deg = 0 THEN Append(queue, d) ELSE queue)

\* lines 156-168
RECURSIVE KahnLoop(_, _, _, _)
KahnLoop(graph, inDeg, queue, ordered) ==
    IF queue = <<>> THEN ordered
    ELSE LET current == Head(queue)
             r == Relax(graph[current], inDeg, Tail(queue))
         IN  KahnLoop(graph, r.inDeg, r.queue, Append(ordered, current))

\* lines 176-179: later entries overwrite earlier ones of the same name
NameToTool(ts, n) ==
    ts[CHOOSE i \in 1..Len(ts) :
          ts[i].name = n /\ \A j \in 1..Len(ts) : ts[j].name = n => j <= i]

\* mutant: the length check is dropped and the partial order is returned
CycleCheckNever(ordered, ts) == FALSE

\* lines 170-173
CycleDetected(ordered, ts) == Len(ordered) # Len(ts)

\* the call's result for one iteration order of the inDegree map
GetInstallOrderFrom(ts, seed) ==
    LET ordered == KahnLoop(BuildGraph(ts), BuildInDegree(ts), seed, <<>>)
    IN  IF CycleDetected(ordered, ts)
        THEN [called |-> TRUE, err |-> TRUE, result |-> <<>>]
        ELSE [called |-> TRUE, err |-> FALSE,
              result |-> [i \in 1..Len(ordered) |-> NameToTool(ts, ordered[i])]]

\* every result the call can produce
GetInstallOrder(ts) ==
    {GetInstallOrderFrom(ts, seed) : seed \in SeedQueues(BuildInDegree(ts))}

(***************************************************************************)
(* LoadToolsConfig (tools_config.go:71-93): parse, Validate, return.       *)
(***************************************************************************)
LoadToolsConfig ==
    /\ loadErr = "pending"
    /\ loadErr' = Validate(yaml)
    /\ config' = IF Validate(yaml) = "none"
                 THEN [nil |-> FALSE, tools |-> yaml]
                 ELSE NilConfig
    /\ UNCHANGED <<yaml, order1, order2, installVars, groupVars, execVars,
                   storeVars, serviceVars>>

\* a caller resolves the install order of the loaded configuration
ResolveFirst ==
    /\ ~config.nil
    /\ ~order1.called
    /\ order1' \in GetInstallOrder(config.tools)
    /\ UNCHANGED <<yaml, config, loadErr, order2, installVars, groupVars, execVars,
                   storeVars, serviceVars>>

\* and resolves it again (a second run of the installer on the same file)
ResolveSecond ==
    /\ order1.called
    /\ ~order2.called
    /\ order2' \in GetInstallOrder(config.tools)
    /\ UNCHANGED <<yaml, config, loadErr, order1, installVars, groupVars, execVars,
                   storeVars, serviceVars>>

(***************************************************************************)
(* ToolInstaller.groupToolsByParallelGroup (tool_installer.go, kept in     *)
(* parallel_test.go:399-423).                                              *)
(***************************************************************************)
\* mutant: a group is closed only once it holds more than one tool
StartsNewGroupLate(parallelGroup, lastParallelGroup, currentGroup) ==
    parallelGroup # lastParallelGroup /\ Len(currentGroup) > 1

\* line 408: if parallelGroup != lastParallelGroup && len(currentGroup) > 0
StartsNewGroup(parallelGroup, lastParallelGroup, currentGroup) ==
    parallelGroup # lastParallelGroup /\ Len(currentGroup) > 0

\* lines 404-415, then the final group of lines 417-420
RECURSIVE GroupLoop(_, _, _, _, _)
GroupLoop(tools, i, groups, currentGroup, lastParallelGroup) ==
    IF i > Len(tools)
    THEN IF Len(currentGroup) > 0 THEN Append(groups, currentGroup) ELSE groups
    ELSE LET parallelGroup == tools[i].parallel_group
             split == StartsNewGroup(parallelGroup, lastParallelGroup,
                                     currentGroup)
         IN  GroupLoop(tools, i + 1,
                       IF split THEN Append(groups, currentGroup) ELSE groups,
                       Append(IF split THEN <<>> ELSE currentGroup, tools[i]),
                       parallelGroup)

groupToolsByParallelGroup(tools) == GroupLoop(tools, 1, <<>>, <<>>, "")

(***************************************************************************)
(* config.State and state.json (state.go, kept in loader_test.go:959-1187).*)
(* A Go map is a record: nil or not, and its entries kv.  A ToolState and  *)
(* the timestamps are not looked at by any reader modelled here: an entry  *)
(* of Installed maps to TRUE.                                              *)
(***************************************************************************)
EmptyKV == [x \in {} |-> TRUE]

NilMap == [nil |-> TRUE, kv |-> EmptyKV]

\* make(map[string]..)
MakeMap == [nil |-> FALSE, kv |-> EmptyKV]

\* len(m)
MapLen(m) == Cardinality(DOMAIN m.kv)

\* m[k] = v on a map that is not nil
MapSet(m, k, v) ==
    [nil |-> FALSE,
     kv |-> [x \in DOMAIN m.kv \cup {k} |-> IF x = k THEN v ELSE m.kv[x]]]

\* config.ToolState, lines 1000-1009; a time is 0 for the zero time.Time and
\* a positive number for a moment of the wall clock
ToolState(v, p, at) == [version |-> v, path |-> p, installed_at |-> at]

\* config.State, lines 980-995
StateAt(i, c, li, ls, v) ==
    [installed |-> i, configured |-> c, last_install |-> li,
     last_setup |-> ls, version |-> v]

\* a State whose LastInstall and LastSetup are the zero time
State(i, c, v) == StateAt(i, c, 0, 0, v)

\* encoding/json writes a string coerced to valid UTF-8: every byte that is
\* not part of a valid sequence becomes U+FFFD.  "1.0<FE>" and "1.0<FF>" are
\* two strings that end in such a byte
InvalidUTF8 == {"1.0<FE>", "1.0<FF>"}

ToValidUTF8(str) == IF str \in InvalidUTF8 THEN "1.0<U+FFFD>" ELSE str

\* json.MarshalIndent(state), line 1088: a nil map is written as null, a
\* map as an object with one member per key, a string coerced to valid
\* UTF-8, a time with its wall clock reading.  The keys are names read from
\* YAML, which are valid UTF-8
MarshalState(st) ==
    StateAt([nil |-> st.installed.nil,
             kv |-> [n \in DOMAIN st.installed.kv |->
                        ToolState(ToValidUTF8(st.installed.kv[n].version),
                                  ToValidUTF8(st.installed.kv[n].path),
                                  st.installed.kv[n].installed_at)]],
            st.configured, st.last_install, st.last_setup,
            ToValidUTF8(st.version))

\* state.json: kind is "missing", "unreadable" (it cannot be read),
\* "malformed" (its bytes are not JSON for a State) or "json"; a nil map is
\* written as null and read back as nil
StateFile(k, st) == [kind |-> k, content |-> st]

MissingFile == StateFile("missing", State(NilMap, NilMap, ""))

\* mutant: the maps are not made when the file has null for them
LoadStateKeepsNil(f) ==
    IF f.kind = "missing"
    THEN [nil |-> FALSE, state |-> State(MakeMap, MakeMap, ""), err |-> ""]
    ELSE IF f.kind = "unreadable"
    THEN [nil |-> TRUE, state |-> State(NilMap, NilMap, ""), err |-> "read"]
    ELSE IF f.kind = "malformed"
    THEN [nil |-> TRUE, state |-> State(NilMap, NilMap, ""), err |-> "parse"]
    ELSE [nil |-> FALSE, state |-> f.content, err |-> ""]

\* LoadState, lines 1038-1070; nil is the *State being nil
LoadState(f) ==
    IF f.kind = "missing"
    THEN [nil |-> FALSE, state |-> State(MakeMap, MakeMap, ""), err |-> ""]
    ELSE IF f.kind = "unreadable"
    THEN [nil |-> TRUE, state |-> State(NilMap, NilMap, ""), err |-> "read"]
    ELSE IF f.kind = "malformed"
    THEN [nil |-> TRUE, state |-> State(NilMap, NilMap, ""), err |-> "parse"]
    ELSE [nil |-> FALSE,
          state |-> StateAt(IF f.content.installed.nil THEN MakeMap
                            ELSE f.content.installed,
                            IF f.content.configured.nil THEN MakeMap
                            ELSE f.content.configured,
                            f.content.last_install, f.content.last_setup,
                            f.content.version),
          err |-> ""]

\* SaveState, lines 1079-1100, ends in one of these ways: "ok", "mkdir" (the
\* directory cannot be made) or "write" (os.WriteFile fails after it has
\* truncated the file)
SaveResults == {"ok", "mkdir", "write"}

\* state.json after a SaveState(st) that ended with r
SaveState(f, st, r) ==
    IF r = "ok" THEN StateFile("json", MarshalState(st))
    ELSE IF r = "mkdir" THEN f
    ELSE StateFile("malformed", State(NilMap, NilMap, ""))

\* what time.Now() returns during the run of a command
Now == 1

\* mutant: the entry is put into a map made anew
MarkToolInstalledAnew(st, name, version, path, now) ==
    [st EXCEPT !.installed =
                   MapSet(MakeMap, name, ToolState(version, path, now)),
               !.last_install = now]

\* MarkToolInstalled, lines 1107-1118, now being what time.Now() returns
MarkToolInstalled(st, name, version, path, now) ==
    [st EXCEPT !.installed =
                   MapSet(IF st.installed.nil THEN MakeMap ELSE st.installed,
                          name, ToolState(version, path, now)),
               !.last_install = now]

\* MarkTaskConfigured, lines 1125-1132, now being what time.Now() returns
MarkTaskConfigured(st, name, now) ==
    [st EXCEPT !.configured =
                   MapSet(IF st.configured.nil THEN MakeMap ELSE st.configured,
                          name, TRUE),
               !.last_setup = now]

\* a caller saves the state, r being how SaveState ends
CallSaveState(r) ==
    /\ disk' = SaveState(disk, state, r)
    /\ saveWarnings' = IF r = "ok" THEN saveWarnings ELSE saveWarnings + 1
    /\ UNCHANGED <<state, configVars, installVars, groupVars, execVars,
                   serviceVars>>

\* a caller marks a tool as installed
CallMarkToolInstalled(name, version, path, now) ==
    /\ state' = MarkToolInstalled(state, name, version, path, now)
    /\ lastMark' = [n |-> lastMark.n + 1, op |-> "tool", name |-> name,
                    version |-> version, path |-> path, now |-> now]
    /\ UNCHANGED <<disk, saveWarnings, configVars, installVars, groupVars,
                   execVars, setupVars, loadVars, verifyVars, statVars,
                   updateVars, stageVars>>

\* a caller marks a setup task as configured
CallMarkTaskConfigured(name, now) ==
    /\ state' = MarkTaskConfigured(state, name, now)
    /\ lastMark' = [n |-> lastMark.n + 1, op |-> "task", name |-> name,
                    version |-> "", path |-> "", now |-> now]
    /\ UNCHANGED <<disk, saveWarnings, configVars, installVars, groupVars,
                   execVars, setupVars, loadVars, verifyVars, statVars,
                   updateVars, stageVars>>

\* IsToolInstalled, lines 1139-1145
IsToolInstalled(st, name) ==
    IF st.installed.nil THEN FALSE ELSE name \in DOMAIN st.installed.kv

\* IsTaskConfigured, lines 1152-1157: a missing key reads as false
IsTaskConfigured(st, name) ==
    IF st.configured.nil THEN FALSE
    ELSE name \in DOMAIN st.configured.kv /\ st.configured.kv[name]

\* GetInstallProgress, lines 1164-1169
GetInstallProgress(st, totalTools) ==
    IF totalTools = 0 THEN 100
    ELSE (MapLen(st.installed) * 100) \div totalTools

\* GetSetupProgress, lines 1176-1187
GetSetupProgress(st, totalTasks) ==
    IF totalTasks = 0 THEN 100
    ELSE LET configured ==
                 Cardinality({n \in DOMAIN st.configured.kv : st.configured.kv[n]})
         IN  (configured * 100) \div totalTasks

NotLoaded ==
    [called |-> FALSE, nil |-> TRUE, state |-> State(NilMap, NilMap, ""),
     err |-> ""]

NoProgress == [called |-> FALSE, install |-> 0, setup |-> 0]

\* a command loads the state (bootstrap.sh:617-622, 779-784)
CallLoadState ==
    /\ ~loaded.called
    /\ loaded' = [called |-> TRUE, nil |-> LoadState(disk).nil,
                  state |-> LoadState(disk).state, err |-> LoadState(disk).err]
    /\ UNCHANGED <<toolsTotal, tasksTotal, progress, configVars, installVars,
                   groupVars, execVars, storeVars, setupVars, verifyVars,
                   statVars, updateVars, markVars,
                   stageVars>>

\* the command goes on with the loaded state (it exits when LoadState
\* returned an error) and asks for the progress of both kinds of unit
ReportProgress ==
    /\ loaded.called /\ ~loaded.nil
    /\ ~progress.called
    /\ progress' = [called |-> TRUE,
                    install |-> GetInstallProgress(loaded.state, toolsTotal),
                    setup |-> GetSetupProgress(loaded.state, tasksTotal)]
    /\ UNCHANGED <<loaded, toolsTotal, tasksTotal, configVars, installVars,
                   groupVars, execVars, storeVars, setupVars, verifyVars,
                   statVars, updateVars, markVars,
                   stageVars>>

(***************************************************************************)
(* ToolInstaller.InstallAll, installGroup, installTool                     *)
(* (parallel_test.go:356-514).  A tool's installTool call is at            *)
(*   "idle"        not started                                             *)
(*   "checking"    isToolInstalled is running the check command            *)
(*   "installing"  runInstallCommand is running the install command        *)
(*   "marking"     installed; config.MarkToolInstalled is writing the      *)
(*                 tool's entry into the shared State                      *)
(*   "crashed"     the runtime ended the process inside installTool        *)
(*   "already"     returned: check passed                                  *)
(*   "dryrun"      returned: dry run, nothing installed                    *)
(*   "installed"   returned: install command succeeded                     *)
(*   "failed"      returned: install command failed                        *)
(***************************************************************************)
Terminal == {"already", "dryrun", "installed", "failed"}

CurrentGroup == toolGroups[gi]

InCurrentGroup(t) ==
    /\ installPc = "running"
    /\ gi <= Len(toolGroups)
    /\ \E k \in 1..Len(CurrentGroup) : CurrentGroup[k] = t

\* mutant: installTool does not look at dryRun
AfterCheckFailedNoDryRun == "installing"

\* lines 481-486 and 489-496: past the check, StartTask, then either the dry
\* run returns or the install command is started
AfterCheckFailed == IF dryRun THEN "dryrun" ELSE "installing"

\* InstallAll, lines 356-370: resolve the order, group it
InstallAll ==
    /\ installPc = "idle"
    /\ ~config.nil
    /\ \E o \in GetInstallOrder(config.tools) :
          /\ orderedTools' = o
          /\ IF o.err
             THEN /\ installPc' = "returned_err"
                  /\ UNCHANGED <<toolGroups, gi>>
             ELSE /\ installPc' = "running"
                  /\ toolGroups' = groupToolsByParallelGroup(o.result)
                  /\ gi' = 1
    /\ UNCHANGED <<dryRun, tstate, firstError, checkResult, configVars,
                   groupVars, execVars,
                   storeVars, serviceVars>>

\* installTool begins for a tool of the current group (directly for a group
\* of one, in its goroutine otherwise): isToolInstalled, lines 521-524
StartTool(t) ==
    /\ InCurrentGroup(t)
    /\ tstate[t.name] = "idle"
    /\ tstate' = [tstate EXCEPT ![t.name] =
                     IF t.check = "" THEN AfterCheckFailed ELSE "checking"]
    /\ checkResult' = [checkResult EXCEPT ![t.name] =
                          IF t.check = "" THEN "nocheck" ELSE @]
    /\ UNCHANGED <<dryRun, installPc, orderedTools, toolGroups, gi, firstError,
                   configVars, groupVars, execVars,
                   storeVars, serviceVars>>

\* mutant: the test of the check command's error is inverted
EndCheckInverted(t, passed) ==
    /\ InCurrentGroup(t)
    /\ tstate[t.name] = "checking"
    /\ tstate' = [tstate EXCEPT ![t.name] =
                     IF passed THEN AfterCheckFailed ELSE "already"]
    /\ checkResult' = [checkResult EXCEPT ![t.name] =
                          IF passed THEN "passed" ELSE "failed"]
    /\ UNCHANGED <<dryRun, installPc, orderedTools, toolGroups, gi, firstError,
                   configVars, groupVars, execVars,
                   storeVars, serviceVars>>

\* the check command ends (isToolInstalled returns the outcome of its last
\* run of the command), lines 473-476 and 478-496
EndCheck(t, passed) ==
    /\ InCurrentGroup(t)
    /\ tstate[t.name] = "checking"
    /\ tstate' = [tstate EXCEPT ![t.name] =
                     IF passed THEN "already" ELSE AfterCheckFailed]
    /\ checkResult' = [checkResult EXCEPT ![t.name] =
                          IF passed THEN "passed" ELSE "failed"]
    /\ UNCHANGED <<dryRun, installPc, orderedTools, toolGroups, gi, firstError,
                   configVars, groupVars, execVars,
                   storeVars, serviceVars>>

\* runInstallCommand, lines 547-560: how the install command can end
InstallOutcomes(t) ==
    IF t.command = "true" THEN {TRUE}
    ELSE IF t.command = "hang" THEN {}
    ELSE BOOLEAN

\* the install command ends, lines 496-511; a required tool's error reaches
\* installGroup (lines 447-456: the first one is kept); after a success the
\* UI is told, getToolInfo runs and MarkToolInstalled is entered
EndInstall(t, ok) ==
    /\ InCurrentGroup(t)
    /\ tstate[t.name] = "installing"
    /\ ok \in InstallOutcomes(t)
    /\ tstate' = [tstate EXCEPT ![t.name] = IF ok THEN "marking" ELSE "failed"]
    /\ firstError' = IF ~ok /\ t.required /\ firstError = ""
                     THEN t.name ELSE firstError
    /\ UNCHANGED <<dryRun, installPc, orderedTools, toolGroups, gi,
                   checkResult, configVars, groupVars, execVars,
                   storeVars, serviceVars>>

\* the goroutines that are inside MarkToolInstalled besides the one of t;
\* nothing in installGroup or installTool orders their writes
OtherWriters(t) == {n \in DOMAIN tstate : n # t.name /\ tstate[n] = "marking"}

\* getToolInfo, lines 567-595: the first line of what the tool prints for
\* its version and what `command -v` prints, "unknown" for a command that
\* fails
getToolInfo(tool) == [version |-> machine.version, path |-> machine.path]

\* MarkToolInstalled writes state.Installed[name], a map shared by the
\* goroutines of the group, without a lock.  A write that does not overlap
\* another is "written".  Two overlapping writes are a data race on a Go map:
\* the entry may be there, may be missing, or the runtime ends the process
\* ("fatal error: concurrent map writes").
MarkOutcomes(t) ==
    IF OtherWriters(t) = {} THEN {"written"} ELSE {"written", "lost", "fatal"}

\* MarkToolInstalled returns, lines 511-513, and installTool with it
MarkEnds(t, outcome) ==
    /\ InCurrentGroup(t)
    /\ tstate[t.name] = "marking"
    /\ outcome \in MarkOutcomes(t)
    /\ tstate' = [tstate EXCEPT ![t.name] =
                     IF outcome = "fatal" THEN "crashed" ELSE "installed"]
    /\ installPc' = IF outcome = "fatal" THEN "crashed" ELSE installPc
    /\ state' = IF outcome = "written"
                THEN MarkToolInstalled(state, t.name, getToolInfo(t).version,
                                       getToolInfo(t).path, Now)
                ELSE state
    /\ UNCHANGED <<dryRun, orderedTools, toolGroups, gi, firstError,
                   checkResult, disk, saveWarnings, configVars, groupVars,
                   execVars, serviceVars>>

\* mutant: the WaitGroup is not waited for
GroupDoneNoWait(group) ==
    Len(group) > 1 \/ \A k \in 1..Len(group) : tstate[group[k].name] \in Terminal

\* installGroup returns: the single installTool call returned (line 437), or
\* wg.Wait() returned (line 462)
GroupDone(group) ==
    \A k \in 1..Len(group) : tstate[group[k].name] \in Terminal

\* InstallAll, lines 373-377: installGroup returned; on an error InstallAll
\* returns it, otherwise the loop goes to the next group
GroupReturns ==
    /\ installPc = "running"
    /\ gi <= Len(toolGroups)
    /\ GroupDone(CurrentGroup)
    /\ IF firstError # ""
       THEN installPc' = "returned_err" /\ gi' = gi
       ELSE installPc' = installPc /\ gi' = gi + 1
    /\ UNCHANGED <<dryRun, orderedTools, toolGroups, tstate, firstError,
                   checkResult, configVars, groupVars, execVars,
                   storeVars, serviceVars>>

\* mutant: a failure of SaveState is returned as the error of InstallAll
InstallAllReturnsSaveError(r) ==
    /\ installPc = "running"
    /\ gi > Len(toolGroups)
    /\ installPc' = IF dryRun \/ r = "ok" THEN "returned_nil"
                    ELSE "returned_err"
    /\ IF dryRun
       THEN r = "ok" /\ UNCHANGED storeVars
       ELSE /\ state' = [state EXCEPT !.version = "v"]
            /\ disk' = SaveState(disk, state', r)
            /\ saveWarnings' = IF r = "ok" THEN saveWarnings
                               ELSE saveWarnings + 1
    /\ UNCHANGED <<dryRun, orderedTools, toolGroups, gi, tstate, firstError,
                   checkResult, configVars, groupVars, execVars, serviceVars>>

\* InstallAll, lines 379-391: every group is done; unless this is a dry run
\* the version is set and the state is saved, r being how SaveState ends: a
\* failure is a warning, and nil is returned
InstallAllReturns(r) ==
    /\ installPc = "running"
    /\ gi > Len(toolGroups)
    /\ installPc' = "returned_nil"
    /\ IF dryRun
       THEN r = "ok" /\ UNCHANGED storeVars
       ELSE /\ state' = [state EXCEPT !.version = "v"]
            /\ disk' = SaveState(disk, state', r)
            /\ saveWarnings' = IF r = "ok" THEN saveWarnings
                               ELSE saveWarnings + 1
    /\ UNCHANGED <<dryRun, orderedTools, toolGroups, gi, tstate, firstError,
                   checkResult, configVars, groupVars, execVars, serviceVars>>

(***************************************************************************)
(* ParallelExecutor (parallel.go).  A task's executeTask call is at        *)
(*   "idle"     not started                                                *)
(*   "waiting"  its goroutine is launched and waits for a semaphore slot   *)
(*   "cond"     checkCondition is running the condition command            *)
(*   "attempt"  the command is running (attempts counts this attempt)      *)
(*   "done"     executeTask returned and the result has been handled       *)
(* its result is "none", "ok", "skipped" or "failed", lastErr is how its   *)
(* last failed attempt ended ("none", "exit" or "deadline"), cond is how   *)
(* its condition command ended ("none", "met" for exit code 0, "unmet" for *)
(* another exit code, "killed" when ctx ended it or kept it from           *)
(* starting), and slept lists, in seconds, the sleeps of the retry loop.   *)
(***************************************************************************)
\* config.Task as the executor reads it; command is "cmd" for a command that
\* ends by itself and "hang" for one that runs until it is killed
Task(n, g, r, c, rc, to, cmd) ==
    [name |-> n, parallel_group |-> g, required |-> r, condition |-> c,
     retry_count |-> rc, timeout |-> to, command |-> cmd]

FreshTask ==
    [pc |-> "idle", attempts |-> 0, result |-> "none", lastErr |-> "none",
     cond |-> "none", slept |-> <<>>]

NoGroupKey == [active |-> FALSE, name |-> ""]

\* groupTasks, parallel.go:259-268: a map from group name to its tasks, each
\* group in list order
groupTasks(ts) ==
    [g \in {ts[i].parallel_group : i \in 1..Len(ts)} |->
        SelectSeq(ts, LAMBDA t : t.parallel_group = g)]

\* executeTask, lines 194-197: retries := task.RetryCount, and 1 if that is 0
Retries(t) == IF t.retry_count = 0 THEN 1 ELSE t.retry_count

\* executeTask, lines 199-202 and 232-238: the loop is entered with attempt 0,
\* or not at all when retries is not positive (the error is then returned
\* without any run of the command)
FirstAttempt(t) ==
    IF 0 < Retries(t)
    THEN [FreshTask EXCEPT !.pc = "attempt", !.attempts = 1]
    ELSE [FreshTask EXCEPT !.pc = "done", !.result = "failed"]

\* executeTask, lines 181-202: evaluate the condition if there is one,
\* otherwise go to the first attempt
BeginExecuteTask(t) ==
    IF t.condition # ""
    THEN [FreshTask EXCEPT !.pc = "cond"]
    ELSE FirstAttempt(t)

\* mutant: the command is started even though the condition failed
AfterConditionIgnored(t, met) == FirstAttempt(t)

\* executeTask, lines 182-191: a condition that fails ends the call with the
\* output "Skipped (condition not met)" and no error
AfterCondition(t, met) ==
    IF met THEN FirstAttempt(t)
    ELSE [FreshTask EXCEPT !.pc = "done", !.result = "skipped"]

\* mutant: the delay is computed from the number of the attempt, counted
\* from one
BackoffCountsFromOne(attempt) == attempt + 1

\* executeTask, lines 203-206: the seconds slept at the top of the loop body
\* for attempt (0, 1, ..), which sleeps only if attempt > 0
Backoff(attempt) == attempt

\* mutant: an attempt ended by its deadline ends the task, retries or not
AfterAttemptDeadlineFatal(t, st, outcome) ==
    IF outcome = "ok" THEN [st EXCEPT !.pc = "done", !.result = "ok"]
    ELSE IF outcome # "deadline" /\ st.attempts < Retries(t)
         THEN [st EXCEPT !.attempts = st.attempts + 1, !.lastErr = outcome,
                         !.slept = Append(@, Backoff(st.attempts))]
         ELSE [st EXCEPT !.pc = "done", !.result = "failed",
                         !.lastErr = outcome]

\* executeTask, lines 202-238: what follows the end of one attempt; outcome
\* is "ok" (err == nil), "exit" (non-zero exit) or "deadline" (killed)
AfterAttempt(t, st, outcome) ==
    IF outcome = "ok" THEN [st EXCEPT !.pc = "done", !.result = "ok"]
    ELSE IF st.attempts < Retries(t)
         THEN [st EXCEPT !.attempts = st.attempts + 1, !.lastErr = outcome,
                         !.slept = Append(@, Backoff(st.attempts))]
         ELSE [st EXCEPT !.pc = "done", !.result = "failed",
                         !.lastErr = outcome]

\* checkCondition, lines 247-251: the condition command runs under ctx, so
\* once the run-wide deadline has passed it can only fail; the function
\* returns err == nil, whatever the error is
ConditionOutcomes == IF ctxDone THEN {FALSE} ELSE BOOLEAN

\* lines 209-217: the command runs under taskCtx.  It ends by itself unless
\* it hangs; it is killed when the task's timeout or the run-wide deadline
\* passes, and once ctx is done a run of it fails at once
AttemptOutcomes(t) ==
    (IF ctxDone \/ t.command = "hang" THEN {} ELSE {"ok", "exit"})
        \cup (IF ctxDone \/ t.timeout > 0 THEN {"deadline"} ELSE {})

\* the goroutines between the acquire of line 149 and the deferred release of
\* line 150
SlotsHeld ==
    Cardinality({i \in 1..Len(tasks) : tk[tasks[i].name].pc \in {"cond", "attempt"}
                                        /\ tasks[i].parallel_group # ""})

InGroup(t) == cur.active /\ t.parallel_group = cur.name /\ execPc = "running"

\* lines 93-103 and 157-164: the call the UI gets for a returned result
TerminalEvent(st) ==
    IF st.result = "failed" THEN "FailTask"
    ELSE IF st.result = "skipped" THEN "SkipInfo"
    ELSE "CompleteTask"

\* mutant: the branches are not exclusive, CompleteTask also follows FailTask
LoggedFallsThrough(t, st, evs) ==
    [events EXCEPT ![t.name] =
        @ \o evs \o (IF st.pc = "done"
                     THEN IF st.result = "failed"
                          THEN <<"FailTask", "CompleteTask">>
                          ELSE <<TerminalEvent(st)>>
                     ELSE <<>>)]

\* the UI calls of one step of a task: evs, then the call for its result if
\* executeTask returned
Logged(t, st, evs) ==
    [events EXCEPT ![t.name] =
        @ \o evs \o (IF st.pc = "done" THEN <<TerminalEvent(st)>> ELSE <<>>)]

\* executeParallelGroup, line 139: make([]TaskResult, len(tasks)) holds zero
\* values, whose Task has the name ""
NoResult == [written |-> FALSE, task |-> "", result |-> "none"]

\* executeTask, lines 184-189, 222-227 and 235-240: the TaskResult carries
\* the task it was called with
StoredResult(t, st) == [written |-> TRUE, task |-> t.name, result |-> st.result]

\* mutant: the goroutine stores its result in the first slot still free
ResultSlotNextFree(t) ==
    CHOOSE i \in 1..Len(parResults) :
        ~parResults[i].written /\ \A j \in 1..(i - 1) : parResults[j].written

\* executeParallelGroup, lines 142-154 and 165: the goroutine is handed the
\* index of its task in the group and stores its result at that index
ResultSlot(t) ==
    CHOOSE i \in 1..Len(execGroups[cur.name]) :
        execGroups[cur.name][i].name = t.name

\* Execute, lines 74-82
Execute ==
    /\ execPc = "idle"
    /\ execPc' = "running"
    /\ execGroups' = groupTasks(tasks)
    /\ remaining' = DOMAIN groupTasks(tasks)
    /\ ctxDone' = FALSE
    /\ UNCHANGED <<tasks, parResults, maxConcurrent, cur, seqIdx, tk, semaphore, events,
                   execErr, configVars, installVars, groupVars,
                   storeVars, serviceVars>>

\* Execute, line 75: the timer of context.WithTimeout(.., p.timeout) fires
DeadlineExpires ==
    /\ execPc = "running"
    /\ ~ctxDone
    /\ ctxDone' = TRUE
    /\ UNCHANGED <<tasks, parResults, maxConcurrent, execPc, execGroups, remaining, cur,
                   seqIdx, tk, semaphore, events, execErr,
                   configVars, installVars, groupVars,
                   storeVars, serviceVars>>

\* Execute, line 85: the range loop over the groups map takes its next key,
\* in the order Go's map iteration happens to produce.  For a parallel group
\* executeParallelGroup makes its semaphore and launches one goroutine per
\* task (lines 138-166).
RangeNext ==
    /\ execPc = "running"
    /\ ~cur.active
    /\ \E g \in remaining :
          /\ cur' = [active |-> TRUE, name |-> g]
          /\ remaining' = remaining \ {g}
          /\ seqIdx' = 1
          /\ semaphore' = IF g = "" THEN semaphore ELSE 0
          /\ parResults' = IF g = "" THEN parResults
                           ELSE [i \in 1..Len(execGroups[g]) |-> NoResult]
          /\ tk' = IF g = "" THEN tk
                   ELSE [n \in DOMAIN tk |->
                            IF \E i \in 1..Len(execGroups[g]) : execGroups[g][i].name = n
                            THEN [tk[n] EXCEPT !.pc = "waiting"]
                            ELSE tk[n]]
    /\ UNCHANGED <<tasks, maxConcurrent, execPc, execGroups, events, execErr,
                   ctxDone, configVars, installVars, groupVars,
                   storeVars, serviceVars>>

\* Execute, lines 91-103: a sequential task's executeTask returned; a failed
\* required task makes Execute return, otherwise the loop goes on
SeqHandled(t, st, evs) ==
    /\ tk' = [tk EXCEPT ![t.name] = st]
    /\ events' = Logged(t, st, evs)
    /\ semaphore' = semaphore
    /\ parResults' = parResults
    /\ IF st.pc = "done"
       THEN IF st.result = "failed" /\ t.required
            THEN execPc' = "returned_err" /\ execErr' = t.name
                 /\ seqIdx' = seqIdx
            ELSE execPc' = execPc /\ execErr' = execErr
                 /\ seqIdx' = seqIdx + 1
       ELSE execPc' = execPc /\ execErr' = execErr /\ seqIdx' = seqIdx

\* mutant: the slot is not given back when the task was skipped
ParHandledSkipKeepsSlot(t, st, evs, held) ==
    /\ tk' = [tk EXCEPT ![t.name] = st]
    /\ events' = Logged(t, st, evs)
    /\ semaphore' = IF st.pc = "done" /\ st.result # "skipped"
                    THEN held - 1 ELSE held
    /\ parResults' = IF st.pc = "done"
                     THEN [parResults EXCEPT ![ResultSlot(t)] = StoredResult(t, st)]
                     ELSE parResults
    /\ UNCHANGED <<execPc, execErr, seqIdx>>

\* executeParallelGroup, lines 150-164: the goroutine stores its result,
\* tells the UI and, returning, gives its slot back; held is the number of
\* slots taken while it runs
ParHandled(t, st, evs, held) ==
    /\ tk' = [tk EXCEPT ![t.name] = st]
    /\ events' = Logged(t, st, evs)
    /\ semaphore' = IF st.pc = "done" THEN held - 1 ELSE held
    /\ parResults' = IF st.pc = "done"
                     THEN [parResults EXCEPT ![ResultSlot(t)] = StoredResult(t, st)]
                     ELSE parResults
    /\ UNCHANGED <<execPc, execErr, seqIdx>>

Handled(t, st, evs, held) ==
    IF t.parallel_group = ""
    THEN SeqHandled(t, st, evs)
    ELSE ParHandled(t, st, evs, held)

\* Execute, lines 88-90: the next sequential task starts
SeqStart ==
    /\ execPc = "running"
    /\ cur.active /\ cur.name = ""
    /\ seqIdx <= Len(execGroups[""])
    /\ LET t == execGroups[""][seqIdx]
       IN  /\ tk[t.name].pc = "idle"
           /\ SeqHandled(t, BeginExecuteTask(t), <<"StartTask">>)
    /\ UNCHANGED <<tasks, maxConcurrent, execGroups, remaining, cur, ctxDone,
                   configVars, installVars, groupVars,
                   storeVars, serviceVars>>

\* executeParallelGroup, lines 148-154: a goroutine gets a semaphore slot
\* (the send blocks while the channel is full) and starts its task
Acquire(t) ==
    /\ InGroup(t)
    /\ tk[t.name].pc = "waiting"
    /\ semaphore < maxConcurrent
    /\ ParHandled(t, BeginExecuteTask(t), <<"StartTask">>, semaphore + 1)
    /\ UNCHANGED <<tasks, maxConcurrent, execGroups, remaining, cur, ctxDone,
                   configVars, installVars, groupVars,
                   storeVars, serviceVars>>

\* checkCondition returns, lines 182-191
ConditionEnds(t, met) ==
    /\ InGroup(t)
    /\ tk[t.name].pc = "cond"
    /\ met \in ConditionOutcomes
    /\ Handled(t, [AfterCondition(t, met) EXCEPT
                       !.cond = IF met THEN "met"
                                ELSE IF ctxDone THEN "killed" ELSE "unmet"],
               <<>>, semaphore)
    /\ UNCHANGED <<tasks, maxConcurrent, execGroups, remaining, cur, ctxDone,
                   configVars, installVars, groupVars,
                   storeVars, serviceVars>>

\* one run of the command ends, lines 216-229; before a further attempt the
\* UI is told of the retry (lines 203-206)
AttemptEnds(t, outcome) ==
    /\ InGroup(t)
    /\ tk[t.name].pc = "attempt"
    /\ outcome \in AttemptOutcomes(t)
    /\ LET st == AfterAttempt(t, tk[t.name], outcome)
       IN  Handled(t, st, IF st.pc = "attempt" THEN <<"RetryInfo">> ELSE <<>>,
                   semaphore)
    /\ UNCHANGED <<tasks, maxConcurrent, execGroups, remaining, cur, ctxDone,
                   configVars, installVars, groupVars,
                   storeVars, serviceVars>>

\* Execute, lines 104-105: the sequential loop is through
SeqGroupEnds ==
    /\ execPc = "running"
    /\ cur.active /\ cur.name = ""
    /\ seqIdx > Len(execGroups[""])
    /\ cur' = NoGroupKey
    /\ UNCHANGED <<tasks, parResults, maxConcurrent, execPc, execGroups, remaining, seqIdx,
                   tk, semaphore, events, execErr, ctxDone,
                   configVars, installVars, groupVars,
                   storeVars, serviceVars>>

\* mutant: the check of lines 114-118 does not look at Required
RequiredFailuresAnyTask(group) ==
    {i \in 1..Len(group) : tk[group[i].name].result = "failed"}

\* Execute, lines 114-118: the results of the group that carry an error of a
\* required task, by their index in the group
RequiredFailures(group) ==
    {i \in 1..Len(group) : tk[group[i].name].result = "failed"
                           /\ group[i].required}

\* mutant: executeParallelGroup returns as soon as one result is an error
ParGroupWaitedFirstError(group) ==
    \/ \A i \in 1..Len(group) : tk[group[i].name].pc = "done"
    \/ \E i \in 1..Len(group) : tk[group[i].name].result = "failed"

\* executeParallelGroup, line 168: wg.Wait() returns once every goroutine of
\* the group is through
ParGroupWaited(group) ==
    \A i \in 1..Len(group) : tk[group[i].name].pc = "done"

\* Execute, lines 107-118: executeParallelGroup returned; the first result
\* with an error of a required task makes Execute return
ParGroupEnds ==
    /\ execPc = "running"
    /\ cur.active /\ cur.name # ""
    /\ ParGroupWaited(execGroups[cur.name])
    /\ LET group == execGroups[cur.name]
           bad == RequiredFailures(group)
       IN  IF bad # {}
           THEN /\ execPc' = "returned_err"
                /\ execErr' = group[CHOOSE i \in bad : \A j \in bad : i <= j].name
                /\ cur' = cur
           ELSE /\ execPc' = execPc
                /\ execErr' = execErr
                /\ cur' = NoGroupKey
    /\ parResults' = <<>>
    /\ UNCHANGED <<tasks, maxConcurrent, execGroups, remaining, seqIdx, tk,
                   semaphore, events, ctxDone,
                   configVars, installVars, groupVars,
                   storeVars, serviceVars>>

\* Execute, lines 122-129: every group was visited; the failed tasks that
\* are not required are reported as warnings
ExecuteReturns ==
    /\ execPc = "running"
    /\ ~cur.active
    /\ remaining = {}
    /\ execPc' = "returned_nil"
    /\ events' = [n \in DOMAIN events |->
                    IF \E i \in 1..Len(tasks) :
                          /\ tasks[i].name = n
                          /\ tk[n].result = "failed"
                          /\ ~tasks[i].required
                    THEN Append(events[n], "Warning")
                    ELSE events[n]]
    /\ UNCHANGED <<tasks, parResults, maxConcurrent, execGroups, remaining, cur, seqIdx, tk,
                   semaphore, execErr, ctxDone,
                   configVars, installVars, groupVars,
                   storeVars, serviceVars>>

(***************************************************************************)
(* Installer.RunStage (installer.go:70-127).  stage.pc is "idle",          *)
(* "executing" (inside executor.Execute), "returned_nil" or               *)
(* "returned_err"; dir and file say whether the state directory and its    *)
(* state.json exist; err names the step whose error was returned.          *)
(***************************************************************************)
\* mutant: RunStage does not look at dryRun
RunStageBeginsNoDryRun(st, loads, mk) ==
    IF ~loads THEN [st EXCEPT !.pc = "returned_err", !.err = "load"]
    ELSE IF ~mk /\ ~st.dir
         THEN [st EXCEPT !.pc = "returned_err", !.err = "mkdir"]
         ELSE [st EXCEPT !.pc = "executing", !.dir = TRUE]

\* RunStage, lines 70-93: up to the call of Execute.  loads says whether
\* LoadStageConfig returned a configuration, mk whether os.MkdirAll was able
\* to make the directory; dryRunStage (lines 134-178) only prints the tasks
\* by ui.Info and returns nil
RunStageBegins(st, loads, mk) ==
    IF ~loads THEN [st EXCEPT !.pc = "returned_err", !.err = "load"]
    ELSE IF dryRun THEN [st EXCEPT !.pc = "returned_nil"]
    ELSE IF ~mk /\ ~st.dir
         THEN [st EXCEPT !.pc = "returned_err", !.err = "mkdir"]
         ELSE [st EXCEPT !.pc = "executing", !.dir = TRUE]

\* RunStage is called
RunStage(loads, mk) ==
    /\ stage.pc = "idle"
    /\ stage' = RunStageBegins(stage, loads, mk)
    /\ UNCHANGED <<configVars, installVars, groupVars, execVars, storeVars,
                   setupVars, loadVars, verifyVars, statVars, updateVars,
                   markVars>>

\* RunStage, lines 96-126: Execute returned; saveState (lines 216-222)
\* writes state.json, and whether it was able to is of no consequence for
\* what RunStage returns
RunStageReturns(saved) ==
    /\ stage.pc = "executing"
    /\ execPc \in {"returned_nil", "returned_err"}
    /\ stage' = [stage EXCEPT
                    !.pc = execPc,
                    !.err = IF execPc = "returned_err" THEN "execute" ELSE "",
                    !.file = @ \/ saved]
    /\ UNCHANGED <<configVars, installVars, groupVars, execVars, storeVars,
                   setupVars, loadVars, verifyVars, statVars, updateVars,
                   markVars>>

(***************************************************************************)
(* SetupExecutor.SetupAll (setup_executor.go:55-102).  A setup task is at  *)
(*   "idle"        not reached by the loop                                 *)
(*   "running"     executeTask is running                                  *)
(*   "already"     passed over: the state says it is configured            *)
(*   "dryrun"      passed over: dry run                                    *)
(*   "configured"  executeTask succeeded and the task was marked           *)
(*   "failed"      executeTask returned an error                           *)
(***************************************************************************)
\* config.SetupTask (loader_test.go:715-754) as SetupAll reads it; strategy
\* is "remote_first" for a task with commands to run and "" for a task with
\* no strategy and no zshrc_lines, steps or prompt
SetupTask(n, d, o, s, v) ==
    [name |-> n, depends_on |-> d, optional |-> o, strategy |-> s,
     verify |-> v]

\* executeTask, lines 109-130: a task without a strategy and without fields
\* to infer one from always fails; otherwise the commands decide
ExecuteTaskOutcomes(task) == IF task.strategy = "" THEN {FALSE} ELSE BOOLEAN

SetupPassedOver == {"already", "dryrun"}

\* SetupConfig.Validate (loader_test.go:927-957): the names are unique, the
\* strategy is a known one and every dependency names a task of the list,
\* wherever in the list it stands
ValidateSetup(ts) ==
    /\ \A i, j \in 1..Len(ts) : ts[i].name = ts[j].name => i = j
    /\ \A i \in 1..Len(ts) :
          /\ ts[i].strategy \in {"", "remote_first", "local_only"}
          /\ \A k \in 1..Len(ts[i].depends_on) :
                \E j \in 1..Len(ts) : ts[j].name = ts[i].depends_on[k]

\* SetupAll is called, lines 55-59
SetupAll ==
    /\ setupPc = "idle"
    /\ setupPc' = "running"
    /\ si' = 1
    /\ UNCHANGED <<setupTasks, sstate, setupErr, configVars, installVars,
                   groupVars, execVars, storeVars,
                   loadVars, verifyVars,
                   statVars, updateVars, markVars,
                   stageVars>>

\* lines 59-75: the loop reaches the next task of the list: it is passed
\* over when the state has it configured or in a dry run, otherwise
\* executeTask is called
SetupTaskStarts ==
    /\ setupPc = "running"
    /\ si <= Len(setupTasks)
    /\ sstate[setupTasks[si].name] = "idle"
    /\ LET task == setupTasks[si]
           to == IF IsTaskConfigured(state, task.name) THEN "already"
                 ELSE IF dryRun THEN "dryrun"
                 ELSE "running"
       IN  /\ sstate' = [sstate EXCEPT ![task.name] = to]
           /\ si' = IF to \in SetupPassedOver THEN si + 1 ELSE si
    /\ UNCHANGED <<setupTasks, setupPc, setupErr, configVars, installVars,
                   groupVars, execVars, storeVars,
                   loadVars, verifyVars,
                   statVars, updateVars, markVars,
                   stageVars>>

\* mutant: the state is not saved after the task, only marked
SetupTaskEndsNoSave(ok, r) ==
    /\ setupPc = "running"
    /\ si <= Len(setupTasks)
    /\ sstate[setupTasks[si].name] = "running"
    /\ ok \in ExecuteTaskOutcomes(setupTasks[si])
    /\ LET task == setupTasks[si]
       IN  IF ok
           THEN /\ sstate' = [sstate EXCEPT ![task.name] = "configured"]
                /\ state' = MarkTaskConfigured(state, task.name, Now)
                /\ r = "ok"
                /\ si' = si + 1
                /\ UNCHANGED <<disk, saveWarnings, setupPc, setupErr>>
           ELSE /\ r = "ok"
                /\ sstate' = [sstate EXCEPT ![task.name] = "failed"]
                /\ IF task.optional
                   THEN si' = si + 1 /\ UNCHANGED <<setupPc, setupErr>>
                   ELSE /\ setupPc' = "returned_err"
                        /\ setupErr' = task.name
                        /\ si' = si
                /\ UNCHANGED storeVars
    /\ UNCHANGED <<setupTasks, configVars, installVars, groupVars, execVars,
                   loadVars, verifyVars, statVars, updateVars, markVars,
                   stageVars>>

\* lines 75-94: executeTask returns.  An error of a task that is not optional
\* makes SetupAll return it; a success is marked in the state, which is saved
\* at once, r being how SaveState ends (a failure is a warning)
SetupTaskEnds(ok, r) ==
    /\ setupPc = "running"
    /\ si <= Len(setupTasks)
    /\ sstate[setupTasks[si].name] = "running"
    /\ ok \in ExecuteTaskOutcomes(setupTasks[si])
    /\ LET task == setupTasks[si]
       IN  IF ok
           THEN /\ sstate' = [sstate EXCEPT ![task.name] = "configured"]
                /\ state' = MarkTaskConfigured(state, task.name, Now)
                /\ disk' = SaveState(disk, state', r)
                /\ saveWarnings' = IF r = "ok" THEN saveWarnings
                                   ELSE saveWarnings + 1
                /\ si' = si + 1
                /\ UNCHANGED <<setupPc, setupErr>>
           ELSE /\ r = "ok"
                /\ sstate' = [sstate EXCEPT ![task.name] = "failed"]
                /\ IF task.optional
                   THEN si' = si + 1 /\ UNCHANGED <<setupPc, setupErr>>
                   ELSE /\ setupPc' = "returned_err"
                        /\ setupErr' = task.name
                        /\ si' = si
                /\ UNCHANGED storeVars
    /\ UNCHANGED <<setupTasks, configVars, installVars, groupVars, execVars,
                   loadVars, verifyVars,
                   statVars, updateVars, markVars,
                   stageVars>>

\* lines 97-101: the loop is through
SetupAllReturns ==
    /\ setupPc = "running"
    /\ si > Len(setupTasks)
    /\ setupPc' = "returned_nil"
    /\ UNCHANGED <<setupTasks, si, sstate, setupErr, configVars, installVars,
                   groupVars, execVars, storeVars,
                   loadVars, verifyVars,
                   statVars, updateVars, markVars,
                   stageVars>>

(***************************************************************************)
(* verify.Verifier (verifier.go, kept in updater_test.go:435-615).  The    *)
(* machine is what the checks look at: whether a tool's check command and  *)
(* a task's verify command succeed, whether the environment variable is    *)
(* set, whether the file exists and whether it holds the text.             *)
(***************************************************************************)
\* config.VerifyCheck (loader_test.go:838-855): the field that is set
VerifyKinds ==
    {"command", "env_var", "file_exists", "file_contains", "toml_value"}

\* runVerifyCheck, lines 587-615; a check with none of the four fields set
\* (a toml_value check) passes
runVerifyCheck(check) ==
    IF check = "command" THEN machine.cmd
    ELSE IF check = "env_var" THEN machine.env
    ELSE IF check = "file_exists" THEN machine.file
    ELSE IF check = "file_contains" THEN machine.file /\ machine.text
    ELSE TRUE

\* mutant: a tool the state has as installed is not checked again
verifyToolTrustsState(v, tool) ==
    IF tool.check = "" THEN TRUE
    ELSE IsToolInstalled(v.state, tool.name) \/ machine.chk

\* verifyTool, lines 560-567
verifyTool(v, tool) ==
    IF tool.check = "" THEN TRUE ELSE machine.chk

\* verifySetupTask, lines 570-584
verifySetupTask(v, task) ==
    IF Len(task.verify) = 0
    THEN IsTaskConfigured(v.state, task.name)
    ELSE \A k \in 1..Len(task.verify) : runVerifyCheck(task.verify[k])

NotVerified ==
    [called |-> FALSE, tools |-> <<>>, setup |-> <<>>, ToolsOK |-> 0,
     ToolsFailed |-> 0, SetupOK |-> 0, SetupFailed |-> 0, err |-> FALSE]

\* VerifyAll, lines 509-557, of the verifier made with the state vstate[r]:
\* the verdict of every tool and every setup task in list order, the four
\* counters, and an error when a unit failed
VerifyAll(r) ==
    /\ ~verdicts[r].called
    /\ LET v == [state |-> vstate[r]]
           tv == [i \in 1..Len(config.tools) |-> verifyTool(v, config.tools[i])]
           sv == [i \in 1..Len(setupTasks) |-> verifySetupTask(v, setupTasks[i])]
           toolsOK == Cardinality({i \in DOMAIN tv : tv[i]})
           setupOK == Cardinality({i \in DOMAIN sv : sv[i]})
       IN  verdicts' = [verdicts EXCEPT ![r] =
               [called |-> TRUE, tools |-> tv, setup |-> sv,
                ToolsOK |-> toolsOK, ToolsFailed |-> Len(tv) - toolsOK,
                SetupOK |-> setupOK, SetupFailed |-> Len(sv) - setupOK,
                err |-> toolsOK + setupOK < Len(tv) + Len(sv)]]
    /\ UNCHANGED <<machine, vstate, configVars, installVars, groupVars,
                   execVars, storeVars, setupVars, loadVars,
                   statVars, updateVars, markVars,
                   stageVars>>

(***************************************************************************)
(* GetTaskStatistics (parallel.go:275-302) over a list of TaskResult.  A   *)
(* result carries the task's name, Error ("" for nil), Output and          *)
(* Duration; executeTask makes three kinds of result (lines 183-238).      *)
(***************************************************************************)
SkippedOutput == "Skipped (condition not met)"

\* TaskResult, lines 46-51, with the name of its Task
TaskResult(n, e, o, d) == [name |-> n, Error |-> e, Output |-> o, Duration |-> d]

\* executeTask, lines 184-189: the condition was not met
SkippedResult(n, d) == TaskResult(n, "", SkippedOutput, d)

\* executeTask, lines 219-224: an attempt succeeded
OkResult(n, d) == TaskResult(n, "", "out", d)

\* executeTask, lines 232-237: every attempt failed
FailedResult(n, d) == TaskResult(n, "exit", "out", d)

\* TaskStatistics, lines 307-314
TaskStatistics(total, ok, failed, avg, longest, longestName) ==
    [TotalTasks |-> total, SuccessfulTasks |-> ok, FailedTasks |-> failed,
     AverageDuration |-> avg, LongestTask |-> longest,
     LongestTaskName |-> longestName]

\* the loop of lines 282-295 over the first k results: the statistics so far
\* and totalDuration
RECURSIVE StatsLoop(_, _)
StatsLoop(rs, k) ==
    IF k = 0
    THEN [stats |-> TaskStatistics(Len(rs), 0, 0, 0, 0, ""), totalDuration |-> 0]
    ELSE LET prev == StatsLoop(rs, k - 1)
             result == rs[k]
             s == prev.stats
             counted == IF result.Error # ""
                        THEN [s EXCEPT !.FailedTasks = @ + 1]
                        ELSE [s EXCEPT !.SuccessfulTasks = @ + 1]
         IN  [stats |-> IF result.Duration > s.LongestTask
                        THEN [counted EXCEPT !.LongestTask = result.Duration,
                                             !.LongestTaskName = result.name]
                        ELSE counted,
              totalDuration |-> prev.totalDuration + result.Duration]

\* GetTaskStatistics, lines 275-302
GetTaskStatistics(rs) ==
    LET end == StatsLoop(rs, Len(rs))
    IN  IF end.stats.TotalTasks > 0
        THEN [end.stats EXCEPT
                 !.AverageDuration = end.totalDuration \div end.stats.TotalTasks]
        ELSE end.stats

NoStats == [called |-> FALSE, stats |-> TaskStatistics(0, 0, 0, 0, 0, "")]

\* GetTaskStatistics is called on the results
CallGetTaskStatistics ==
    /\ ~statistics.called
    /\ statistics' = [called |-> TRUE, stats |-> GetTaskStatistics(results)]
    /\ UNCHANGED <<results, configVars, installVars, groupVars, execVars,
                   storeVars, setupVars, loadVars, verifyVars, updateVars,
                   markVars, stageVars>>

(***************************************************************************)
(* updater.Updater.Update (updater.go:133-187).  A file is "absent" or     *)
(* holds "old" (the running binary), "empty" (the fresh temp file), "good" *)
(* (the released binary) or "corrupt" (bytes whose SHA256 is not the       *)
(* released one).  Update is at                                            *)
(*   "idle"      not called                                                *)
(*   "find"      the executable path is resolved                           *)
(*   "temp", "download", "chmod", "backup", "replace"  before that call    *)
(*   "returned_nil", "returned_err"                                        *)
(***************************************************************************)
\* what the paths of the running binary, of its backup and of the temp file
\* hold
Files(exe, backup, temp) == [exe |-> exe, backup |-> backup, temp |-> temp]

\* Asset, lines 49-53
Asset(n) == [Name |-> n, BrowserDownloadURL |-> n]

\* line 217: fmt.Sprintf("devsetup-%s-%s", runtime.GOOS, runtime.GOARCH)
BinaryName(p) ==
    IF p = "darwin-arm64" THEN "devsetup-darwin-arm64"
    ELSE "devsetup-darwin-amd64"

\* findAssetForPlatform, lines 214-226: the index of the first asset with the
\* binary's name, 0 for nil
findAssetForPlatform(assets) ==
    LET hits == {i \in 1..Len(assets) : assets[i].Name = BinaryName(platform)}
    IN  IF hits = {} THEN 0
        ELSE CHOOSE i \in hits : \A j \in hits : i <= j

\* the asset Update works with once it passed line 150
UpdateAsset == release.assets[findAssetForPlatform(release.assets)]

\* the deferred os.Remove(tempFile.Name()) of line 157
TempRemoved(f) == [f EXCEPT !.temp = "absent"]

\* lines 135-144: os.Executable and filepath.EvalSymlinks, r being "ok" or
\* the call that failed
UpdateStarts(r) ==
    /\ updPc = "idle"
    /\ ~release.nil
    /\ updPc' = IF r = "ok" THEN "find" ELSE "returned_err"
    /\ UNCHANGED <<release, platform, served, fs, configVars, installVars,
                   groupVars, execVars, storeVars, setupVars, loadVars,
                   verifyVars, statVars, markVars, stageVars>>

\* lines 147-150
UpdateFindsAsset ==
    /\ updPc = "find"
    /\ updPc' = IF findAssetForPlatform(release.assets) = 0
                THEN "returned_err" ELSE "temp"
    /\ UNCHANGED <<release, platform, served, fs, configVars, installVars,
                   groupVars, execVars, storeVars, setupVars, loadVars,
                   verifyVars, statVars, markVars, stageVars>>

\* lines 153-158: os.CreateTemp
UpdateCreatesTemp(ok) ==
    /\ updPc = "temp"
    /\ IF ok
       THEN updPc' = "download" /\ fs' = [fs EXCEPT !.temp = "empty"]
       ELSE updPc' = "returned_err" /\ fs' = fs
    /\ UNCHANGED <<release, platform, served, configVars, installVars,
                   groupVars, execVars, storeVars, setupVars, loadVars,
                   verifyVars, statVars, markVars, stageVars>>

\* lines 160-162: downloadFile copies what the URL serves into the temp file
UpdateDownloads(ok) ==
    /\ updPc = "download"
    /\ IF ok
       THEN /\ updPc' = "chmod"
            /\ fs' = [fs EXCEPT !.temp = served[UpdateAsset.BrowserDownloadURL]]
       ELSE /\ updPc' = "returned_err"
            /\ fs' = TempRemoved(fs)
    /\ UNCHANGED <<release, platform, served, configVars, installVars,
                   groupVars, execVars, storeVars, setupVars, loadVars,
                   verifyVars, statVars, markVars, stageVars>>

\* lines 165-167: os.Chmod
UpdateChmods(ok) ==
    /\ updPc = "chmod"
    /\ IF ok
       THEN updPc' = "backup" /\ fs' = fs
       ELSE updPc' = "returned_err" /\ fs' = TempRemoved(fs)
    /\ UNCHANGED <<release, platform, served, configVars, installVars,
                   groupVars, execVars, storeVars, setupVars, loadVars,
                   verifyVars, statVars, markVars, stageVars>>

\* lines 170-173: the current binary is renamed to the backup path
UpdateBackups(ok) ==
    /\ updPc = "backup"
    /\ IF ok
       THEN /\ updPc' = "replace"
            /\ fs' = [fs EXCEPT !.backup = fs.exe, !.exe = "absent"]
       ELSE /\ updPc' = "returned_err"
            /\ fs' = TempRemoved(fs)
    /\ UNCHANGED <<release, platform, served, configVars, installVars,
                   groupVars, execVars, storeVars, setupVars, loadVars,
                   verifyVars, statVars, markVars, stageVars>>

\* lines 176-186: the temp file is renamed to the binary's path; then the
\* backup is removed, or on a failure renamed back.  The error of that second
\* call is ignored, second being whether it succeeded
UpdateReplaces(ok, second) ==
    /\ updPc = "replace"
    /\ IF ok
       THEN /\ updPc' = "returned_nil"
            /\ fs' = [fs EXCEPT !.exe = fs.temp, !.temp = "absent",
                                !.backup = IF second THEN "absent" ELSE @]
       ELSE /\ updPc' = "returned_err"
            /\ fs' = IF second
                     THEN Files(fs.backup, "absent", "absent")
                     ELSE TempRemoved(fs)
    /\ UNCHANGED <<release, platform, served, configVars, installVars,
                   groupVars, execVars, storeVars, setupVars, loadVars,
                   verifyVars, statVars, markVars, stageVars>>

(***************************************************************************)
(* Input universes of the installer runs.                                  *)
(***************************************************************************)
InstallNames == <<"a", "b", "c">>

InstallDepLists == {<<>>, <<"a">>, <<"b">>}

InstallTags == {"", "g1"}

InstallChecks == {"", "chk"}

InstallProfiles == [d : InstallDepLists, g : InstallTags, r : BOOLEAN]

\* the tool list with the i-th tool named InstallNames[i]; the tools of one
\* list either all have a check command or all have none
InstallConfig(p, c) ==
    [i \in DOMAIN p |-> Tool(InstallNames[i], p[i].d, p[i].g, p[i].r, c, "cmd")]

\* a base tool followed by k tools of one parallel group that depend on it
\* and run the install command cmd
WideNames == <<"base", "w1", "w2", "w3", "w4", "w5", "w6", "w7", "w8", "w9">>

WideConfig(k, cmd) ==
    [i \in 1..(k + 1) |->
        IF i = 1 THEN Tool(WideNames[i], <<>>, "", TRUE, "chk", "cmd")
        ELSE Tool(WideNames[i], <<WideNames[1]>>, "g1", FALSE, "", cmd)]

GroupTags == {"", "g1", "g2"}

MaxGroupLen == 5

\* the ordered list whose i-th tool is named i and tagged g[i]
GroupList(g) == [i \in DOMAIN g |-> Tool(i, <<>>, g[i], TRUE, "chk", "cmd")]

TaskNames == <<"t1", "t2", "t3">>

TaskGroups == {"", "g1", "g2"}

TaskConditions == {"", "cond"}

MaxRetry == 2

MaxConcurrents == {1, 2}

TaskProfiles == [g : TaskGroups, r : BOOLEAN]

\* retry_count is an int of the YAML file: nothing keeps it from being
\* negative
RetryCounts == (0 - 1)..MaxRetry

\* the task list with the i-th task named TaskNames[i]; the tasks of one list
\* share the condition and the retry count, have no timeout of their own and
\* run commands that end by themselves
TaskList(p, c, rc) ==
    [i \in DOMAIN p |-> Task(TaskNames[i], p[i].g, p[i].r, c, rc, 0, "cmd")]

\* tasks whose command may hang; the tasks of one list share the condition,
\* the retry count and the timeout (0: none of their own)
DeadlineProfiles == [g : InstallTags, r : BOOLEAN, cmd : {"cmd", "hang"}]

DeadlineList(p, c, rc, to) ==
    [i \in DOMAIN p |->
        Task(TaskNames[i], p[i].g, p[i].r, c, rc, to, p[i].cmd)]

(***************************************************************************)
(* Specifications.                                                         *)
(***************************************************************************)
ConfigIdle ==
    /\ config = NilConfig
    /\ loadErr = "pending"
    /\ order1 = NoOrder
    /\ order2 = NoOrder

InstallIdle ==
    /\ installPc = "idle"
    /\ orderedTools = NoOrder
    /\ toolGroups = <<>>
    /\ gi = 0
    /\ tstate = [n \in ToolNames |-> "idle"]
    /\ firstError = ""
    /\ checkResult = [n \in ToolNames |-> "none"]

\* the command starts with the state LoadState returns when there is no
\* state.json yet
StoreFresh ==
    /\ disk = MissingFile
    /\ state = LoadState(disk).state
    /\ saveWarnings = 0

SetupNames == <<"s1", "s2", "s3">>

SetupIdle ==
    /\ setupPc = "idle"
    /\ si = 0
    /\ sstate = [n \in Range(SetupNames) |-> "idle"]
    /\ setupErr = ""

NoSetup ==
    /\ setupTasks = <<>>
    /\ SetupIdle

LoadIdle ==
    /\ loaded = NotLoaded
    /\ toolsTotal = 0
    /\ tasksTotal = 0
    /\ progress = NoProgress

Machine(chk, cmd, env, file, text) ==
    [chk |-> chk, cmd |-> cmd, env |-> env, file |-> file, text |-> text,
     version |-> "unknown", path |-> "unknown"]

VerifyRuns == {1, 2}

VerifyIdle ==
    /\ machine = Machine(FALSE, FALSE, FALSE, FALSE, FALSE)
    /\ vstate = [r \in VerifyRuns |-> State(MakeMap, MakeMap, "")]
    /\ verdicts = [r \in VerifyRuns |-> NotVerified]

StatsIdle ==
    /\ results = <<>>
    /\ statistics = NoStats

NoRelease == [nil |-> TRUE, assets |-> <<>>]

Platforms == {"darwin-arm64", "darwin-amd64"}

AssetNames == {"devsetup-darwin-arm64", "devsetup-darwin-amd64"}

UpdateIdle ==
    /\ release = NoRelease
    /\ platform = "darwin-arm64"
    /\ served = [a \in AssetNames |-> "good"]
    /\ updPc = "idle"
    /\ fs = Files("old", "absent", "absent")

NoMark == [n |-> 0, op |-> "none", name |-> "", version |-> "", path |-> "",
           now |-> 0]

MarkIdle == lastMark = NoMark

\* RunStage is not called: nothing is in ~/.local/share/dev-setup
NoStage == [pc |-> "idle", dir |-> FALSE, file |-> FALSE, err |-> ""]

StageIdle == stage = NoStage

ServicesIdle ==
    /\ NoSetup
    /\ LoadIdle
    /\ VerifyIdle
    /\ StatsIdle
    /\ UpdateIdle
    /\ MarkIdle
    /\ StageIdle

GroupIdle ==
    /\ glist = <<>>
    /\ ggroups = <<>>

ExecIdle ==
    /\ execPc = "idle"
    /\ execGroups = <<>>
    /\ remaining = {}
    /\ cur = NoGroupKey
    /\ seqIdx = 0
    /\ tk = [i \in {TaskNames[k] : k \in 1..Len(TaskNames)} |-> FreshTask]
    /\ semaphore = 0
    /\ parResults = <<>>
    /\ events = [i \in {TaskNames[k] : k \in 1..Len(TaskNames)} |-> <<>>]
    /\ execErr = ""
    /\ ctxDone = FALSE

NoTasks ==
    /\ tasks = <<>>
    /\ maxConcurrent = 1
    /\ ExecIdle

\* the configuration loader and the resolver
InitConfig ==
    /\ StoreFresh
    /\ ServicesIdle
    /\ yaml \in ResolverConfigs
    /\ ConfigIdle
    /\ dryRun = FALSE
    /\ InstallIdle
    /\ GroupIdle
    /\ NoTasks

NextConfig ==
    \/ LoadToolsConfig
    \/ ResolveFirst
    \/ ResolveSecond

SpecConfig == InitConfig /\ [][NextConfig]_vars

\* the install command: LoadToolsConfig, then InstallAll
InitInstall ==
    /\ StoreFresh
    /\ ServicesIdle
    /\ \E k \in 0..Len(InstallNames) : \E p \in [1..k -> InstallProfiles] :
          \E c \in InstallChecks : yaml = InstallConfig(p, c)
    /\ ConfigIdle
    /\ dryRun \in BOOLEAN
    /\ InstallIdle
    /\ GroupIdle
    /\ NoTasks

NextInstall ==
    \/ LoadToolsConfig
    \/ InstallAll
    \/ \E t \in Range(yaml) : StartTool(t)
    \/ \E t \in Range(yaml) : \E passed \in BOOLEAN : EndCheck(t, passed)
    \/ \E t \in Range(yaml) : \E ok \in BOOLEAN : EndInstall(t, ok)
    \/ \E t \in Range(yaml) : \E outcome \in MarkOutcomes(t) :
          MarkEnds(t, outcome)
    \/ GroupReturns
    \/ \E r \in SaveResults : InstallAllReturns(r)

SpecInstall == InitInstall /\ [][NextInstall]_vars

\* the install command on a configuration with one parallel group: a large
\* one of long-running installations, or a small one of quick ones
InitWide ==
    /\ StoreFresh
    /\ ServicesIdle
    /\ \/ yaml = WideConfig(Len(WideNames) - 1, "hang")
       \/ yaml = WideConfig(2, "true")
    /\ ConfigIdle
    /\ dryRun = FALSE
    /\ installPc = "idle"
    /\ orderedTools = NoOrder
    /\ toolGroups = <<>>
    /\ gi = 0
    /\ tstate = [n \in Range(WideNames) |-> "idle"]
    /\ firstError = ""
    /\ checkResult = [n \in Range(WideNames) |-> "none"]
    /\ GroupIdle
    /\ NoTasks

SpecWide == InitWide /\ [][NextInstall]_vars

\* the install command on the tool set Homebrew, Git, Node, Python: Homebrew
\* and Git without a parallel group, Node and Python in group g1, all three
\* depending on Homebrew
ExampleNames == <<"Homebrew", "Git", "Node", "Python">>

ExampleConfig(req, c) ==
    <<Tool("Homebrew", <<>>, "", req[1], c, "cmd"),
      Tool("Git", <<"Homebrew">>, "", req[2], c, "cmd"),
      Tool("Node", <<"Homebrew">>, "g1", req[3], c, "cmd"),
      Tool("Python", <<"Homebrew">>, "g1", req[4], c, "cmd")>>

InitExample ==
    /\ StoreFresh
    /\ ServicesIdle
    /\ \E req \in [1..Len(ExampleNames) -> BOOLEAN] : \E c \in InstallChecks :
          yaml = ExampleConfig(req, c)
    /\ ConfigIdle
    /\ dryRun \in BOOLEAN
    /\ installPc = "idle"
    /\ orderedTools = NoOrder
    /\ toolGroups = <<>>
    /\ gi = 0
    /\ tstate = [n \in Range(ExampleNames) |-> "idle"]
    /\ firstError = ""
    /\ checkResult = [n \in Range(ExampleNames) |-> "none"]
    /\ GroupIdle
    /\ NoTasks

SpecExample == InitExample /\ [][NextInstall]_vars

\* groupToolsByParallelGroup applied to an ordered list
GroupTools ==
    /\ ggroups = <<>>
    /\ glist # <<>>
    /\ ggroups' = groupToolsByParallelGroup(glist)
    /\ UNCHANGED <<glist, configVars, installVars, execVars,
                   storeVars, serviceVars>>

InitGroup ==
    /\ StoreFresh
    /\ ServicesIdle
    /\ yaml = <<>>
    /\ ConfigIdle
    /\ dryRun = FALSE
    /\ InstallIdle
    /\ \E k \in 0..MaxGroupLen : \E g \in [1..k -> GroupTags] :
          glist = GroupList(g)
    /\ ggroups = <<>>
    /\ NoTasks

NextGroup == GroupTools

SpecGroup == InitGroup /\ [][NextGroup]_vars

\* ParallelExecutor.Execute on a task list
InitExec ==
    /\ StoreFresh
    /\ ServicesIdle
    /\ yaml = <<>>
    /\ ConfigIdle
    /\ dryRun = FALSE
    /\ InstallIdle
    /\ GroupIdle
    /\ \E k \in 0..Len(TaskNames) : \E p \in [1..k -> TaskProfiles] :
          \E c \in TaskConditions : \E rc \in RetryCounts :
              tasks = TaskList(p, c, rc)
    /\ maxConcurrent \in MaxConcurrents
    /\ ExecIdle

NextExec ==
    \/ Execute
    \/ RangeNext
    \/ SeqStart
    \/ \E t \in Range(tasks) : Acquire(t)
    \/ \E t \in Range(tasks) : \E met \in BOOLEAN : ConditionEnds(t, met)
    \/ \E t \in Range(tasks) : \E outcome \in AttemptOutcomes(t) :
          AttemptEnds(t, outcome)
    \/ SeqGroupEnds
    \/ ParGroupEnds
    \/ ExecuteReturns

SpecExec == InitExec /\ [][NextExec]_vars

\* Execute by an executor made with any maxConcurrent that make() accepts,
\* on tasks whose commands end by themselves.  Commands end and goroutines
\* are scheduled: a step that can be taken is eventually taken.
InitLimit ==
    /\ StoreFresh
    /\ ServicesIdle
    /\ yaml = <<>>
    /\ ConfigIdle
    /\ dryRun = FALSE
    /\ InstallIdle
    /\ GroupIdle
    /\ \E k \in 0..2 : \E p \in [1..k -> TaskProfiles] :
          \E c \in TaskConditions : \E rc \in {0, MaxRetry} :
              tasks = TaskList(p, c, rc)
    /\ maxConcurrent \in {0} \cup MaxConcurrents
    /\ ExecIdle

SpecLimit == InitLimit /\ [][NextExec]_vars /\ WF_vars(NextExec)

\* Execute on a sequential task and a task of a parallel group, each with a
\* retry count of its own
MaxBackoff == 3

InitBackoff ==
    /\ StoreFresh
    /\ ServicesIdle
    /\ yaml = <<>>
    /\ ConfigIdle
    /\ dryRun = FALSE
    /\ InstallIdle
    /\ GroupIdle
    /\ \E c \in TaskConditions : \E r1, r2 \in BOOLEAN :
          \E rc1, rc2 \in 0..MaxBackoff :
              tasks = <<Task("t1", "", r1, c, rc1, 0, "cmd"),
                        Task("t2", "g1", r2, c, rc2, 0, "cmd")>>
    /\ maxConcurrent = 1
    /\ ExecIdle

SpecBackoff == InitBackoff /\ [][NextExec]_vars

\* Execute under its run-wide deadline, on tasks whose commands may hang.
\* Timers fire, commands that end by themselves do end and goroutines are
\* scheduled: a step that can be taken is eventually taken.
InitDeadline ==
    /\ StoreFresh
    /\ ServicesIdle
    /\ yaml = <<>>
    /\ ConfigIdle
    /\ dryRun = FALSE
    /\ InstallIdle
    /\ GroupIdle
    /\ \E k \in 0..2 : \E p \in [1..k -> DeadlineProfiles] :
          \E c \in TaskConditions : \E rc \in {0, MaxRetry} : \E to \in {0, 1} :
              tasks = DeadlineList(p, c, rc, to)
    /\ maxConcurrent \in MaxConcurrents
    /\ ExecIdle

NextDeadline == NextExec \/ DeadlineExpires

SpecDeadline ==
    InitDeadline /\ [][NextDeadline]_vars /\ WF_vars(NextDeadline)

\* a run of either engine on units that may fail: InstallAll on tools that
\* do not depend on each other, or Execute on tasks of at most one parallel
\* group
InitUnits ==
    /\ StoreFresh
    /\ ServicesIdle
    /\ ConfigIdle
    /\ dryRun = FALSE
    /\ InstallIdle
    /\ GroupIdle
    /\ ExecIdle
    /\ \/ /\ \E k \in 0..Len(InstallNames) :
                 \E p \in [1..k -> {q \in InstallProfiles : q.d = <<>>}] :
                     \E c \in InstallChecks : yaml = InstallConfig(p, c)
          /\ tasks = <<>>
          /\ maxConcurrent = 1
       \/ /\ yaml = <<>>
          /\ \E k \in 0..Len(TaskNames) :
                 \E p \in [1..k -> {q \in TaskProfiles : q.g \in InstallTags}] :
                     \E c \in TaskConditions : \E rc \in {0, MaxRetry} :
                         tasks = TaskList(p, c, rc)
          /\ maxConcurrent \in MaxConcurrents

\* the process runs one command: the engine that was handed units runs
NextUnits ==
    \/ tasks = <<>> /\ NextInstall
    \/ yaml = <<>> /\ NextExec

SpecUnits == InitUnits /\ [][NextUnits]_vars

\* a command that loads state.json, whatever its condition, and reports the
\* progress against the configuration in use
StoreNames == {"a", "b", "c"}

MaxTotal == 3

\* the maps a state.json can hold: null, or entries for some names
InstalledMaps ==
    {NilMap} \cup {[nil |-> FALSE,
                    kv |-> [n \in S |-> ToolState("1.0", "/bin", Now)]] :
                       S \in SUBSET StoreNames}

ConfiguredMaps ==
    {NilMap} \cup UNION {{[nil |-> FALSE, kv |-> f] : f \in [S -> BOOLEAN]} :
                            S \in SUBSET StoreNames}

InitStore ==
    /\ yaml = <<>>
    /\ ConfigIdle
    /\ dryRun = FALSE
    /\ InstallIdle
    /\ GroupIdle
    /\ NoTasks
    /\ NoSetup
    /\ \/ \E k \in {"missing", "unreadable", "malformed"} :
              disk = StateFile(k, State(NilMap, NilMap, ""))
       \/ \E i \in InstalledMaps : \E c \in ConfiguredMaps :
              disk = StateFile("json", State(i, c, "v"))
    /\ state = State(MakeMap, MakeMap, "")
    /\ saveWarnings = 0
    /\ loaded = NotLoaded
    /\ toolsTotal \in 0..MaxTotal
    /\ tasksTotal \in 0..MaxTotal
    /\ progress = NoProgress
    /\ VerifyIdle
    /\ StatsIdle
    /\ UpdateIdle
    /\ MarkIdle
    /\ StageIdle

NextStore ==
    \/ CallLoadState
    \/ ReportProgress

SpecStore == InitStore /\ [][NextStore]_vars

\* the setup command: LoadSetupConfig, LoadState, then SetupAll.  The task
\* list passed Validate; state.json is missing or has the first task as
\* configured by an earlier run
SetupDepLists == {<<>>} \cup {<<n>> : n \in Range(SetupNames)}

SetupProfiles ==
    [d : SetupDepLists, o : BOOLEAN, s : {"", "remote_first"}]

SetupConfig(p) ==
    [i \in DOMAIN p |->
        SetupTask(SetupNames[i], p[i].d, p[i].o, p[i].s, <<>>)]

SetupDisks ==
    {MissingFile,
     StateFile("json", State(MakeMap, MapSet(MakeMap, SetupNames[1], TRUE),
                             "v"))}

InitSetup ==
    /\ yaml = <<>>
    /\ ConfigIdle
    /\ dryRun \in BOOLEAN
    /\ InstallIdle
    /\ GroupIdle
    /\ NoTasks
    /\ disk \in SetupDisks
    /\ state = LoadState(disk).state
    /\ saveWarnings = 0
    /\ \E k \in 0..Len(SetupNames) : \E p \in [1..k -> SetupProfiles] :
          /\ ValidateSetup(SetupConfig(p))
          /\ setupTasks = SetupConfig(p)
    /\ SetupIdle
    /\ LoadIdle
    /\ VerifyIdle
    /\ StatsIdle
    /\ UpdateIdle
    /\ MarkIdle
    /\ StageIdle

NextSetup ==
    \/ SetupAll
    \/ SetupTaskStarts
    \/ \E ok \in BOOLEAN : \E r \in SaveResults : SetupTaskEnds(ok, r)
    \/ SetupAllReturns

SpecSetup == InitSetup /\ [][NextSetup]_vars

\* a run of either command that saves the state: the install command on
\* tools without dependencies, or the setup command
MaxSaveTools == 2

InitSave ==
    \/ /\ InitSetup
       /\ ~dryRun
    \/ /\ InitInstall
       /\ ~dryRun
       /\ Len(yaml) <= MaxSaveTools
       /\ \A i \in 1..Len(yaml) : yaml[i].depends_on = <<>>

\* the process runs one command: the one that was handed units, and with
\* no units at all the one that began
NextSave ==
    \/ setupTasks = <<>> /\ setupPc = "idle" /\ NextInstall
    \/ yaml = <<>> /\ ConfigIdle /\ NextSetup

SpecSave == InitSave /\ [][NextSave]_vars

\* one command of the program, as a dry run or not: the install command, the
\* setup command, or a stage run by an Installer (whose executor is made by
\* NewInstaller with room for eight tasks), on a machine where the state
\* directory and its file may exist already
StageConcurrency == 8

InitStage ==
    /\ StoreFresh
    /\ NoSetup
    /\ LoadIdle
    /\ VerifyIdle
    /\ StatsIdle
    /\ UpdateIdle
    /\ MarkIdle
    /\ \E d, f \in BOOLEAN :
          /\ f => d
          /\ stage = [NoStage EXCEPT !.dir = d, !.file = f]
    /\ yaml = <<>>
    /\ ConfigIdle
    /\ dryRun \in BOOLEAN
    /\ InstallIdle
    /\ GroupIdle
    /\ \E k \in 0..2 : \E p \in [1..k -> TaskProfiles] :
          \E c \in TaskConditions : \E rc \in {0, MaxRetry} :
              tasks = TaskList(p, c, rc)
    /\ maxConcurrent = StageConcurrency
    /\ ExecIdle

NextStage ==
    \/ \E loads, mk \in BOOLEAN : RunStage(loads, mk)
    \/ stage.pc = "executing" /\ NextExec
    \/ \E saved \in BOOLEAN : RunStageReturns(saved)

InitDryRun ==
    \/ InitSetup
    \/ /\ InitInstall
       /\ Len(yaml) <= MaxSaveTools
       /\ \A i \in 1..Len(yaml) : yaml[i].depends_on = <<>>
    \/ InitStage

\* the process runs one command: the one that was handed units, and with
\* no units at all the one that began
NextDryRun ==
    \/ /\ setupTasks = <<>> /\ setupPc = "idle"
       /\ tasks = <<>> /\ stage = NoStage
       /\ NextInstall
    \/ /\ yaml = <<>> /\ ConfigIdle
       /\ tasks = <<>> /\ stage = NoStage
       /\ NextSetup
    \/ /\ yaml = <<>> /\ ConfigIdle
       /\ setupTasks = <<>> /\ setupPc = "idle"
       /\ NextStage

SpecDryRun == InitDryRun /\ [][NextDryRun]_vars

\* GetTaskStatistics on any list of results that executeTask can make
MaxResults == 3

MaxDuration == 2

ResultNames == <<"r1", "r2", "r3", "r4">>

ResultKinds == {"skipped", "ok", "failed"}

ResultOf(kind, n, d) ==
    IF kind = "skipped" THEN SkippedResult(n, d)
    ELSE IF kind = "ok" THEN OkResult(n, d)
    ELSE FailedResult(n, d)

InitStats ==
    /\ yaml = <<>>
    /\ ConfigIdle
    /\ dryRun = FALSE
    /\ InstallIdle
    /\ GroupIdle
    /\ NoTasks
    /\ StoreFresh
    /\ NoSetup
    /\ LoadIdle
    /\ VerifyIdle
    /\ \E k \in 0..MaxResults :
          \E kinds \in [1..k -> ResultKinds] :
              \E ds \in [1..k -> 0..MaxDuration] :
                  results = [i \in 1..k |->
                                ResultOf(kinds[i], ResultNames[i], ds[i])]
    /\ statistics = NoStats
    /\ UpdateIdle
    /\ MarkIdle
    /\ StageIdle

NextStats == CallGetTaskStatistics

SpecStats == InitStats /\ [][NextStats]_vars

\* the update command: Update on a release with at most two assets, each URL
\* serving the released binary or other bytes
InitUpdate ==
    /\ yaml = <<>>
    /\ ConfigIdle
    /\ dryRun = FALSE
    /\ InstallIdle
    /\ GroupIdle
    /\ NoTasks
    /\ StoreFresh
    /\ NoSetup
    /\ LoadIdle
    /\ VerifyIdle
    /\ StatsIdle
    /\ \E k \in 0..Cardinality(AssetNames) : \E a \in [1..k -> AssetNames] :
          release = [nil |-> FALSE, assets |-> [i \in 1..k |-> Asset(a[i])]]
    /\ platform \in Platforms
    /\ served \in [AssetNames -> {"good", "corrupt"}]
    /\ updPc = "idle"
    /\ fs = Files("old", "absent", "absent")
    /\ MarkIdle
    /\ StageIdle

NextUpdate ==
    \/ \E r \in {"ok", "executable", "symlinks"} : UpdateStarts(r)
    \/ UpdateFindsAsset
    \/ \E ok \in BOOLEAN : UpdateCreatesTemp(ok)
    \/ \E ok \in BOOLEAN : UpdateDownloads(ok)
    \/ \E ok \in BOOLEAN : UpdateChmods(ok)
    \/ \E ok \in BOOLEAN : UpdateBackups(ok)
    \/ \E ok, second \in BOOLEAN : UpdateReplaces(ok, second)

SpecUpdate == InitUpdate /\ [][NextUpdate]_vars

\* the mark helpers called on any State, some calls in a row
MaxMarks == 2

MaxClock == 2

MarkNames == {"a", "b"}

MarkVersions == {"1.0", "2.0"}

MarkedStates ==
    [installed : {NilMap, MakeMap,
                  MapSet(MakeMap, "a", ToolState("1.0", "/bin", Now))},
     configured : {NilMap, MakeMap, MapSet(MakeMap, "a", TRUE),
                   MapSet(MakeMap, "a", FALSE), MapSet(MakeMap, "b", TRUE)},
     last_install : {0, Now}, last_setup : {0, Now}, version : {"", "v"}]

InitMark ==
    /\ yaml = <<>>
    /\ ConfigIdle
    /\ dryRun = FALSE
    /\ InstallIdle
    /\ GroupIdle
    /\ NoTasks
    /\ disk = MissingFile
    /\ state \in MarkedStates
    /\ saveWarnings = 0
    /\ ServicesIdle

NextMark ==
    \/ \E name \in MarkNames : \E version \in MarkVersions :
          \E now \in 1..MaxClock :
              /\ lastMark.n < MaxMarks
              /\ CallMarkToolInstalled(name, version, "/bin", now)
    \/ \E name \in MarkNames : \E now \in 1..MaxClock :
          /\ lastMark.n < MaxMarks
          /\ CallMarkTaskConfigured(name, now)

SpecMark == InitMark /\ [][NextMark]_vars

\* SaveState of any State a run can build, followed by LoadState in the next
\* process.  The version and path of a tool are what its commands printed
RoundTripNames == {"a", "b"}

RoundTripStrings == {"unknown", "1.0"} \cup InvalidUTF8

RoundTripInstalled ==
    {NilMap} \cup
    UNION {{[nil |-> FALSE, kv |-> f] :
               f \in [S -> {ToolState(v, "/bin", Now) : v \in RoundTripStrings}]} :
              S \in SUBSET RoundTripNames}

InitRoundTrip ==
    /\ yaml = <<>>
    /\ ConfigIdle
    /\ dryRun = FALSE
    /\ InstallIdle
    /\ GroupIdle
    /\ NoTasks
    /\ disk = MissingFile
    /\ \E i \in RoundTripInstalled : \E c \in ConfiguredMaps :
          \E li, ls \in {0, Now} : \E v \in {"", "v"} :
              state = StateAt(i, c, li, ls, v)
    /\ saveWarnings = 0
    /\ ServicesIdle

\* SaveState is called once, and LoadState once after it
NextRoundTrip ==
    \/ \E r \in SaveResults :
          /\ disk = MissingFile
          /\ saveWarnings = 0
          /\ CallSaveState(r)
    \/ /\ disk # MissingFile \/ saveWarnings > 0
       /\ CallLoadState

SpecRoundTrip == InitRoundTrip /\ [][NextRoundTrip]_vars

\* the verify command run twice on one machine and one configuration, each
\* run with the State it loaded
VerifyNames == <<"s1", "s2">>

VerifyLists ==
    {<<>>, <<"command", "env_var">>,
     <<"file_exists", "file_contains", "toml_value">>}

VerifyStates ==
    {State([nil |-> FALSE, kv |-> [n \in I |-> ToolState("1.0", "/bin", Now)]],
           [nil |-> FALSE, kv |-> [n \in C |-> TRUE]], "v") :
        I \in SUBSET {"a"}, C \in SUBSET Range(VerifyNames)}

InitVerify ==
    /\ \E k \in 0..1 : \E c \in InstallChecks :
          yaml = [i \in 1..k |-> Tool("a", <<>>, "", TRUE, c, "cmd")]
    /\ config = [nil |-> FALSE, tools |-> yaml]
    /\ loadErr = "none"
    /\ order1 = NoOrder
    /\ order2 = NoOrder
    /\ dryRun = FALSE
    /\ InstallIdle
    /\ GroupIdle
    /\ NoTasks
    /\ StoreFresh
    /\ \E k \in 0..Len(VerifyNames) : \E v \in [1..k -> VerifyLists] :
          setupTasks = [i \in 1..k |->
                           SetupTask(VerifyNames[i], <<>>, FALSE,
                                     "remote_first", v[i])]
    /\ SetupIdle
    /\ LoadIdle
    /\ machine \in [chk : BOOLEAN, cmd : BOOLEAN, env : BOOLEAN,
                     file : BOOLEAN, text : BOOLEAN,
                     version : {"unknown"}, path : {"unknown"}]
    /\ vstate \in [VerifyRuns -> VerifyStates]
    /\ verdicts = [r \in VerifyRuns |-> NotVerified]
    /\ StatsIdle
    /\ UpdateIdle
    /\ MarkIdle
    /\ StageIdle

NextVerify == \E r \in VerifyRuns : VerifyAll(r)

SpecVerify == InitVerify /\ [][NextVerify]_vars

(***************************************************************************)
(* Vocabulary of the properties (stated independently of the algorithms).  *)
(***************************************************************************)
DepsOf(ts, n) ==
    UNION {Range(ts[i].depends_on) : i \in {j \in 1..Len(ts) : ts[j].name = n}}

HasDuplicateName(ts) ==
    \E i, j \in 1..Len(ts) : i # j /\ ts[i].name = ts[j].name

HasDanglingDep(ts) ==
    \E i \in 1..Len(ts) : ~(Range(ts[i].depends_on) \subseteq NamesOf(ts))

\* a finite relation has a cycle iff some non-empty set of names has, for
\* each member, a dependency inside the set
HasCycle(ts) ==
    \E S \in SUBSET NamesOf(ts) :
        S # {} /\ \A n \in S : DepsOf(ts, n) \cap S # {}

\* every tool of the order comes strictly after each tool it depends on
DepsBefore(seq) ==
    \A i \in 1..Len(seq) : \A d \in Range(seq[i].depends_on) :
        \E j \in 1..(i - 1) : seq[j].name = d

IsPermutation(seq, ts) ==
    /\ Len(seq) = Len(ts)
    /\ \A i \in 1..Len(ts) :
           Cardinality({j \in 1..Len(seq) : seq[j] = ts[i]}) = 1

Orders == {order1, order2}

(***************************************************************************)
(* Properties of the configuration loader and the resolver (SpecConfig).   *)
(***************************************************************************)
\* C2: for a valid acyclic tool set GetInstallOrder returns an order in
\* which every tool appears strictly after each tool named in its depends_on
C2_DependenciesFirst ==
    \A o \in Orders :
        (o.called /\ ~HasCycle(config.tools)) => (~o.err /\ DepsBefore(o.result))

C2_Witness ==
    /\ order1.called /\ ~order1.err
    /\ Len(yaml) = 3
    /\ Cardinality(Range(yaml[1].depends_on)) = 2
    /\ order1.result[3] = yaml[1]

\* C3: for a valid acyclic tool set the returned list has the length of the
\* input and holds every input tool exactly once
C3_OrderIsPermutation ==
    \A o \in Orders :
        (o.called /\ ~HasCycle(config.tools)) =>
            (~o.err /\ IsPermutation(o.result, config.tools))

C3_Witness ==
    /\ order2.called /\ ~order2.err
    /\ Len(config.tools) = 3
    /\ order2.result # config.tools
    /\ IsPermutation(order2.result, config.tools)

\* C5: two calls of GetInstallOrder on the same acyclic tool set return the
\* identical order
C5_Deterministic ==
    (order1.called /\ order2.called) => order1 = order2

\* C6: Validate rejects duplicate names and unknown dependencies, accepts a
\* dependency on a tool defined later, and LoadToolsConfig hands out a
\* configuration (to the resolver) only after Validate accepted it
C6_ValidateBeforeUse ==
    /\ loadErr # "pending" =>
          /\ (HasDuplicateName(yaml) \/ HasDanglingDep(yaml))
                => (loadErr # "none" /\ config.nil)
          /\ ~(HasDuplicateName(yaml) \/ HasDanglingDep(yaml))
                => (loadErr = "none" /\ config = [nil |-> FALSE, tools |-> yaml])
    /\ (~config.nil \/ order1.called \/ order2.called) =>
          /\ loadErr = "none"
          /\ ~HasDuplicateName(config.tools)
          /\ ~HasDanglingDep(config.tools)

\* a dependency on a tool that is defined later in the list was accepted
C6_Witness ==
    /\ loadErr = "none"
    /\ Len(yaml) >= 2
    /\ yaml[2].name \in Range(yaml[1].depends_on)
    /\ order1.called

(***************************************************************************)
(* Properties of groupToolsByParallelGroup (SpecGroup).                    *)
(***************************************************************************)
RECURSIVE Concat(_)
Concat(seqs) == IF seqs = <<>> THEN <<>> ELSE Head(seqs) \o Concat(Tail(seqs))

GroupIndexOf(groups, t) ==
    {k \in 1..Len(groups) : \E m \in 1..Len(groups[k]) : groups[k][m] = t}

\* C7: the groups are the maximal contiguous runs of equal parallel_group:
\* their concatenation is the input list, each group carries one tag, adjacent
\* groups carry different tags, and two tools of the same tag separated by a
\* tool of another tag are in two distinct groups
C7_ContiguousRuns ==
    ggroups # <<>> =>
        /\ Concat(ggroups) = glist
        /\ \A k \in 1..Len(ggroups) :
              /\ ggroups[k] # <<>>
              /\ \A m \in 1..Len(ggroups[k]) :
                    ggroups[k][m].parallel_group = ggroups[k][1].parallel_group
        /\ \A k \in 1..(Len(ggroups) - 1) :
              ggroups[k][1].parallel_group # ggroups[k + 1][1].parallel_group
        /\ \A i, k, j \in 1..Len(glist) :
              (/\ i < k /\ k < j
               /\ glist[i].parallel_group = glist[j].parallel_group
               /\ glist[k].parallel_group # glist[i].parallel_group)
              => GroupIndexOf(ggroups, glist[i]) \cap
                 GroupIndexOf(ggroups, glist[j]) = {}

\* [A(seq), B(g1), C(g1), D(seq), E(g1)] gives {A}, {B,C}, {D}, {E}
C7_Witness ==
    /\ glist = GroupList(<<"", "g1", "g1", "", "g1">>)
    /\ Len(ggroups) = 4
    /\ ggroups[2] = <<glist[2], glist[3]>>
    /\ ggroups[4] = <<glist[5]>>

(***************************************************************************)
(* Properties of ToolInstaller.InstallAll (SpecInstall).                   *)
(***************************************************************************)
Started(n) == tstate[n] # "idle"

Finished(n) == tstate[n] \in Terminal

\* C1: a tool's check and install command do not begin until every tool
\* named in its depends_on has been fully processed
C1_DependencyProcessedFirst ==
    \A i \in 1..Len(yaml) : \A d \in Range(yaml[i].depends_on) :
        Started(yaml[i].name) => Finished(d)

\* C4: when depends_on has a cycle GetInstallOrder returns an error and a
\* nil result, and InstallAll returns the error without running any check or
\* install command
C4_CycleIsFatal ==
    (installPc # "idle" /\ HasCycle(config.tools)) =>
        /\ orderedTools.err
        /\ orderedTools.result = <<>>
        /\ installPc = "returned_err"
        /\ \A n \in ToolNames : ~Started(n)

\* a depends on b and b depends on a, next to a tool outside the cycle
C4_Witness ==
    /\ installPc = "returned_err"
    /\ Len(yaml) = 3
    /\ yaml[1].depends_on = <<"b">>
    /\ yaml[2].depends_on = <<"a">>
    /\ yaml[3].depends_on = <<>>

\* C8: a tool with an empty parallel_group forms a group of its own, and its
\* install command never runs while another tool's install command runs
C8_EmptyTagIsolated ==
    \A i \in 1..Len(yaml) :
        yaml[i].parallel_group = "" =>
            /\ \A k \in GroupIndexOf(toolGroups, yaml[i]) :
                  Len(toolGroups[k]) = 1
            /\ tstate[yaml[i].name] = "installing" =>
                  \A j \in 1..Len(yaml) :
                      j # i => tstate[yaml[j].name] # "installing"

\* C9: no tool of a later group starts before every tool of each earlier
\* group has reached a terminal outcome
C9_GroupsInOrder ==
    \A i, j \in 1..Len(toolGroups) :
        i < j =>
            \A m \in 1..Len(toolGroups[j]) : \A k \in 1..Len(toolGroups[i]) :
                Started(toolGroups[j][m].name)
                    => Finished(toolGroups[i][k].name)

\* a tool of the second group is running after a parallel first group
C9_Witness ==
    /\ Len(toolGroups) >= 2
    /\ Len(toolGroups[1]) = 2
    /\ tstate[toolGroups[2][1].name] = "installing"
    /\ tstate[toolGroups[1][1].name] = "failed"
    /\ tstate[toolGroups[1][2].name] = "installed"

InstallCommandInvoked(n) ==
    tstate[n] \in {"installing", "marking", "installed", "failed", "crashed"}

\* C20: in a run that is not a dry run a tool's install command is invoked
\* exactly when the tool has no check or its check command failed: a tool
\* whose check passed is already installed and its install command is not
\* invoked, a tool without a check always has it invoked
C20_InstallIffCheckFails ==
    ~dryRun =>
        \A i \in 1..Len(yaml) :
            LET t == yaml[i]
                n == t.name
            IN  /\ InstallCommandInvoked(n) =>
                      \/ t.check = "" /\ checkResult[n] = "nocheck"
                      \/ t.check # "" /\ checkResult[n] = "failed"
                /\ checkResult[n] = "passed" =>
                      (t.check # "" /\ tstate[n] = "already")
                /\ (Started(n) /\ t.check = "") => InstallCommandInvoked(n)
                /\ checkResult[n] = "failed" => InstallCommandInvoked(n)
                /\ tstate[n] = "checking" => checkResult[n] = "none"

\* one tool's check passed and its install command was not run, another's
\* check failed and it was installed
C20_Witness ==
    /\ ~dryRun
    /\ installPc = "returned_nil"
    /\ Len(yaml) = 2
    /\ checkResult["a"] = "passed" /\ tstate["a"] = "already"
    /\ checkResult["b"] = "failed" /\ tstate["b"] = "installed"

\* C12: during InstallAll at most 8 install commands run at the same time,
\* whatever the size of a parallel group
C12_AtMostEightInstalls ==
    Cardinality({n \in DOMAIN tstate : tstate[n] = "installing"}) <= 8

(***************************************************************************)
(* Properties of ParallelExecutor.Execute (SpecExec).                      *)
(***************************************************************************)
\* C10: whenever task X precedes task Y in the list and they belong to
\* different groups, X has finished, all its retries included, before Y
\* starts
C10_GroupOrderFollowsList ==
    \A i, j \in 1..Len(tasks) :
        (i < j /\ tasks[i].parallel_group # tasks[j].parallel_group) =>
            (tk[tasks[j].name].pc # "idle" => tk[tasks[i].name].pc = "done")

\* C11: in a parallel group run with maxConcurrent = N >= 1 at most N tasks
\* are between acquiring and releasing a semaphore slot, the slots taken are
\* exactly those of the tasks running their condition or command, and no
\* slot is held once the group has returned, whatever the tasks' outcomes
C11_SemaphoreBound ==
    /\ SlotsHeld <= maxConcurrent
    /\ semaphore = SlotsHeld
    /\ (execPc # "running" \/ ~cur.active) => semaphore = 0

\* a group of three under a limit of two: two tasks hold a slot, the third
\* waits for one
C11_Witness ==
    /\ maxConcurrent = 2
    /\ Len(tasks) = 3
    /\ \A i \in 1..3 : tasks[i].parallel_group = "g1"
    /\ semaphore = 2
    /\ tk["t1"].pc = "attempt"
    /\ tk["t2"].pc = "cond"
    /\ tk["t3"].pc = "waiting"

\* C13: a task whose condition command exits non-zero never has its command
\* run, is recorded as skipped with no error, gets neither CompleteTask nor
\* FailTask from the executor, and is not the reason of an error of Execute,
\* required or not
C13_SkippedTaskNotRun ==
    \A i \in 1..Len(tasks) :
        LET n == tasks[i].name
        IN  tk[n].cond = "unmet" =>
                /\ tk[n].attempts = 0
                /\ tk[n].pc = "done"
                /\ tk[n].result = "skipped"
                /\ tk[n].lastErr = "none"
                /\ events[n] = <<"StartTask", "SkipInfo">>
                /\ execErr # n

\* a required task was skipped in a parallel group and Execute returned nil
C13_Witness ==
    /\ Len(tasks) = 2
    /\ tasks[1].required /\ tasks[1].parallel_group = "g1"
    /\ tk["t1"].cond = "unmet"
    /\ tk["t2"].result = "ok"
    /\ execPc = "returned_nil"

Max(a, b) == IF a >= b THEN a ELSE b

\* C14: a task that was not skipped has its command attempted at least once
\* and at most max(1, retry_count) times; a task all of whose attempts
\* failed was attempted exactly max(1, retry_count) times, and a successful
\* attempt is the last one
C14_AttemptsWithinBudget ==
    \A i \in 1..Len(tasks) :
        LET t == tasks[i]
            st == tk[t.name]
        IN  /\ st.attempts <= Max(1, t.retry_count)
            /\ st.result = "ok" => st.pc = "done"
            /\ (st.pc = "done" /\ st.result # "skipped") => st.attempts >= 1
            /\ st.result = "failed" => st.attempts = Max(1, t.retry_count)

\* C15: retry_count is the number of retries after the first failed attempt:
\* a task with retry_count = k whose attempts all fail was attempted k + 1
\* times
C15_RetryCountCountsRetries ==
    \A i \in 1..Len(tasks) :
        tk[tasks[i].name].result = "failed" =>
            tk[tasks[i].name].attempts = tasks[i].retry_count + 1

LifecycleEvents == {"StartTask", "CompleteTask", "FailTask", "SkipInfo"}

\* the lifecycle calls the UI received for a task, in order
Lifecycle(n) == SelectSeq(events[n], LAMBDA e : e \in LifecycleEvents)

\* C18: for every task the observer receives StartTask exactly once when the
\* task starts, then exactly one of CompleteTask, FailTask and the skip Info
\* when its result is there; never two terminal events, never a terminal
\* event before StartTask, and when Execute has returned every started task
\* has both
C18_OneLifecyclePerTask ==
    \A i \in 1..Len(tasks) :
        LET n == tasks[i].name
            lc == Lifecycle(n)
        IN  /\ Len(lc) <= 2
            /\ Len(lc) >= 1 => lc[1] = "StartTask"
            /\ Len(lc) = 2 => lc[2] \in LifecycleEvents \ {"StartTask"}
            /\ tk[n].pc \in {"idle", "waiting"} <=> lc = <<>>
            /\ tk[n].pc = "done" <=> Len(lc) = 2
            /\ execPc # "running" => Len(lc) # 1

\* a failed optional sequential task with a retry, a skipped and a completed
\* task of a parallel group, after Execute returned
C18_Witness ==
    /\ Len(tasks) = 3
    /\ execPc = "returned_nil"
    /\ tasks[1].parallel_group = ""
    /\ events["t1"] = <<"StartTask", "RetryInfo", "FailTask", "Warning">>
    /\ tasks[2].parallel_group = "g1" /\ tasks[3].parallel_group = "g1"
    /\ events["t2"] = <<"StartTask", "SkipInfo">>
    /\ events["t3"] = <<"StartTask", "RetryInfo", "CompleteTask">>

(***************************************************************************)
(* Properties of Execute under deadlines (SpecDeadline).                   *)
(***************************************************************************)
\* a required task is running a command that does not end by itself
HangingRequired(n) ==
    \E i \in 1..Len(tasks) :
        /\ tasks[i].name = n
        /\ tasks[i].required
        /\ tasks[i].command = "hang"
        /\ tk[n].pc = "attempt"

AttemptBudgetSpent ==
    \A i \in 1..Len(tasks) :
        LET t == tasks[i]
            st == tk[t.name]
        IN  /\ st.attempts <= Max(1, t.retry_count)
            /\ st.result = "failed" => st.attempts = Max(1, t.retry_count)
            /\ st.lastErr = "deadline" => st.attempts >= 1
            /\ (st.pc = "done" /\ t.command = "hang" /\ st.result # "skipped")
                 => (st.result = "failed" /\ st.lastErr = "deadline")
            /\ (st.result = "failed" /\ t.required) => execPc # "returned_nil"

\* C19: an attempt ended by its deadline (the task's timeout or the run-wide
\* one) uses up one attempt of the retry budget like a non-zero exit, and a
\* required task whose attempts all time out makes Execute return an error:
\* the run does not hang
C19_DeadlineIsFailedAttempt ==
    /\ []AttemptBudgetSpent
    /\ \A n \in {"t1", "t2", "t3"} :
          HangingRequired(n) ~> (execPc = "returned_err")

\* a required task without a timeout of its own runs a command that never
\* ends; all its attempts were ended by the run-wide deadline and Execute
\* returned the error
C19_Witness ==
    /\ Len(tasks) = 1
    /\ tasks[1].command = "hang" /\ tasks[1].timeout = 0
    /\ tasks[1].required
    /\ tasks[1].retry_count = MaxRetry
    /\ ctxDone
    /\ tk["t1"].attempts = MaxRetry
    /\ tk["t1"].lastErr = "deadline"
    /\ execPc = "returned_err" /\ execErr = "t1"

(***************************************************************************)
(* Properties of failing units in both engines (SpecUnits).                *)
(***************************************************************************)
TaskNamed(n) == tasks[CHOOSE i \in 1..Len(tasks) : tasks[i].name = n]

ToolNamed(n) == yaml[CHOOSE i \in 1..Len(yaml) : yaml[i].name = n]

FailedRequiredTasks ==
    {i \in 1..Len(tasks) : tasks[i].required
                           /\ tk[tasks[i].name].result = "failed"}

FailedRequiredTools ==
    {i \in 1..Len(yaml) : yaml[i].required /\ tstate[yaml[i].name] = "failed"}

\* C16: when a required unit has failed after exhausting its attempts the
\* call returns an error that names such a unit and never nil; at that
\* return no unit is still running (those of the failed unit's parallel
\* group have all run to completion), and no unit of a group not yet
\* visited and no later sequential task has been or is ever started
C16_RequiredFailureStopsRun ==
    /\ FailedRequiredTasks # {} => execPc # "returned_nil"
    /\ execPc = "returned_err" =>
          /\ \E i \in FailedRequiredTasks :
                /\ tasks[i].name = execErr
                /\ tk[execErr].attempts = Max(1, tasks[i].retry_count)
          /\ \A i \in 1..Len(tasks) :
                /\ tk[tasks[i].name].pc \in {"idle", "done"}
                /\ (tasks[i].parallel_group = TaskNamed(execErr).parallel_group
                    /\ tasks[i].parallel_group # "")
                      => tk[tasks[i].name].pc = "done"
                /\ (tasks[i].parallel_group \in remaining)
                      => tk[tasks[i].name].pc = "idle"
                /\ (tasks[i].parallel_group = ""
                    /\ TaskNamed(execErr).parallel_group = ""
                    /\ (\E j \in 1..(i - 1) : tasks[j].name = execErr))
                      => tk[tasks[i].name].pc = "idle"
    /\ FailedRequiredTools # {} => installPc # "returned_nil"
    /\ (installPc = "returned_err" /\ ~orderedTools.err) =>
          /\ \E i \in FailedRequiredTools : yaml[i].name = firstError
          /\ \A k \in 1..Len(toolGroups) : \A m \in 1..Len(toolGroups[k]) :
                /\ (k = gi) => Finished(toolGroups[k][m].name)
                /\ (k > gi) => ~Started(toolGroups[k][m].name)

\* a required task of a parallel group failed all its attempts, a task of
\* the same group still ran to success, and the sequential task was never
\* started
C16_Witness ==
    /\ Len(tasks) = 3
    /\ execPc = "returned_err"
    /\ execErr = "t1"
    /\ tasks[1].parallel_group = "g1" /\ tasks[2].parallel_group = "g1"
    /\ tasks[3].parallel_group = ""
    /\ tk["t1"].attempts = MaxRetry
    /\ tk["t2"].result = "ok" /\ tk["t2"].attempts = MaxRetry
    /\ tk["t3"].pc = "idle"

\* C17: the failure of a unit that is not required never aborts the run:
\* the call returns an error only when a required unit failed (or the
\* install order could not be resolved), and it returns nil only after
\* every unit of the list has been processed
C17_OptionalFailureIsNotFatal ==
    /\ execPc = "returned_err" => FailedRequiredTasks # {}
    /\ execPc = "returned_nil" =>
          /\ FailedRequiredTasks = {}
          /\ \A i \in 1..Len(tasks) : tk[tasks[i].name].pc = "done"
    /\ \A i \in 1..Len(tasks) :
          (tk[tasks[i].name].result = "failed" /\ ~tasks[i].required) =>
              execErr # tasks[i].name
    /\ installPc = "returned_err" =>
          (orderedTools.err \/ FailedRequiredTools # {})
    /\ installPc = "returned_nil" =>
          /\ FailedRequiredTools = {}
          /\ \A i \in 1..Len(yaml) : Finished(yaml[i].name)
    /\ \A i \in 1..Len(yaml) :
          (tstate[yaml[i].name] = "failed" /\ ~yaml[i].required) =>
              firstError # yaml[i].name

\* the first tool is optional and failed; the two tools after it, one in
\* its parallel group and one in the next group, were installed and
\* InstallAll returned nil
C17_Witness ==
    /\ Len(yaml) = 3
    /\ installPc = "returned_nil"
    /\ Len(toolGroups) = 2 /\ Len(toolGroups[1]) = 2
    /\ toolGroups[1][1] = yaml[1]
    /\ ~yaml[1].required
    /\ tstate[yaml[1].name] = "failed"
    /\ tstate[yaml[2].name] = "installed"
    /\ tstate[yaml[3].name] = "installed"

(***************************************************************************)
(* Properties of the State Store in the runs of InstallAll (SpecInstall).  *)
(***************************************************************************)
\* what a command started now would load from state.json
Reloaded == LoadState(disk).state

InFlight(n) == tstate[n] \in {"checking", "installing", "marking"}

\* C21: the install state is persisted right after each successfully
\* installed tool: whenever InstallAll is between two tools (none is being
\* processed), be it on its way, aborted by a failed required tool or ended
\* by a crash, reloading state.json shows every tool installed so far and
\* none of the tools not yet started
C21_PersistedAfterEachTool ==
    (~dryRun /\ \A n \in DOMAIN tstate : ~InFlight(n)) =>
        \A i \in 1..Len(yaml) :
            LET n == yaml[i].name
            IN  /\ tstate[n] = "installed" => IsToolInstalled(Reloaded, n)
                /\ tstate[n] = "idle" => ~IsToolInstalled(Reloaded, n)

(***************************************************************************)
(* Properties of LoadState and the progress helpers (SpecStore).           *)
(***************************************************************************)
UsableState(l) ==
    /\ ~l.nil
    /\ l.err = ""
    /\ ~l.state.installed.nil
    /\ ~l.state.configured.nil

\* C22 as stated: LoadState never fails hard: whatever the condition of
\* state.json (missing, unreadable, malformed) it returns a usable State
\* with non-nil maps and no error, and a fresh one with both maps empty when
\* the file is missing
C22_LoadNeverFails ==
    loaded.called =>
        /\ UsableState(loaded)
        /\ disk.kind = "missing" =>
              (MapLen(loaded.state.installed) = 0
               /\ MapLen(loaded.state.configured) = 0)

\* C22 amended: LoadState returns a usable State with non-nil maps and no
\* error when state.json is missing (a fresh State, both maps empty) or holds
\* the JSON of a State (a null map becomes an empty one, the entries and the
\* version are kept); when the file cannot be read or does not parse it
\* returns a nil State and an error
C22_LoadFailsOnlyOnBadFile ==
    loaded.called =>
        /\ disk.kind = "missing" =>
              (UsableState(loaded)
               /\ MapLen(loaded.state.installed) = 0
               /\ MapLen(loaded.state.configured) = 0)
        /\ disk.kind = "json" =>
              (UsableState(loaded)
               /\ loaded.state.installed.kv = disk.content.installed.kv
               /\ loaded.state.configured.kv = disk.content.configured.kv
               /\ loaded.state.version = disk.content.version)
        /\ disk.kind \in {"unreadable", "malformed"} =>
              (loaded.nil /\ loaded.err # "")

\* a state.json with null for the installed map and two tasks, one of them
\* recorded as false, was loaded
C22_Witness ==
    /\ loaded.called
    /\ disk.kind = "json"
    /\ disk.content.installed.nil
    /\ loaded.state.installed = MakeMap
    /\ DOMAIN loaded.state.configured.kv = {"a", "b"}
    /\ loaded.state.configured.kv["a"]
    /\ ~loaded.state.configured.kv["b"]

\* C23: GetInstallProgress and GetSetupProgress return an integer in 0..100
\* for every State and every total a caller passes, also when the State has
\* entries for names that are no longer in the configuration
C23_ProgressInRange ==
    progress.called =>
        /\ progress.install \in 0..100
        /\ progress.setup \in 0..100


\* both runs of the verify command have returned
BothVerified == \A r \in VerifyRuns : verdicts[r].called

SetupStarted(n) == sstate[n] \in {"running", "configured", "failed"}

\* the task named n is configured, by this run or by an earlier one
SetupCompleted(n) == sstate[n] \in {"configured", "already"}

\* C30: SetupAll starts a setup task only when every task its depends_on
\* names has completed.
C30_DependenciesCompleteFirst ==
    \A i \in 1..Len(setupTasks) :
        SetupStarted(setupTasks[i].name) =>
            \A k \in 1..Len(setupTasks[i].depends_on) :
                SetupCompleted(setupTasks[i].depends_on[k])


\* SaveState has just failed in this step
SaveFailed == saveWarnings' > saveWarnings

\* C25: a failure of SaveState is never fatal: InstallAll and SetupAll
\* return an error only for a failed required unit, InstallAll returns nil
\* right after a failed save, and SetupAll goes on with the next task.
C25_SaveFailureNotFatal ==
    /\ [](installPc = "returned_err" => firstError # "")
    /\ [](setupPc = "returned_err" =>
            \E i \in 1..Len(setupTasks) :
                /\ setupTasks[i].name = setupErr
                /\ ~setupTasks[i].optional
                /\ sstate[setupErr] = "failed")
    /\ [][SaveFailed /\ installPc = "running" => installPc' = "returned_nil"]_vars
    /\ [][SaveFailed /\ setupPc = "running" =>
              setupPc' = "running" /\ si' = si + 1]_vars

\* SetupAll returned nil although SaveState failed after each of at least
\* two tasks, the later of which ran after the first failure
C25_Witness ==
    /\ setupPc = "returned_nil"
    /\ saveWarnings >= 2
    /\ \E i, j \in 1..Len(setupTasks) :
          /\ i < j
          /\ sstate[setupTasks[i].name] = "configured"
          /\ sstate[setupTasks[j].name] = "configured"


\* the results of tasks whose condition was not met
SkippedResults == {i \in 1..Len(results) : results[i].Output = SkippedOutput}

\* C26: GetTaskStatistics counts a skipped result neither in SuccessfulTasks
\* nor in FailedTasks.
C26_SkippedNotCounted ==
    statistics.called =>
        statistics.stats.SuccessfulTasks + statistics.stats.FailedTasks =
            Len(results) - Cardinality(SkippedResults)


\* installTool has been entered for the tool named n
ToolBegun(n) == tstate[n] # "idle"

\* installTool has returned for the tool named n
ToolProcessed(n) == tstate[n] \in Terminal

\* the tools named m and n are in one group of toolGroups
SameGroup(m, n) ==
    \E g \in 1..Len(toolGroups) :
        {m, n} \subseteq NamesOf(toolGroups[g])

\* C27: for Homebrew, Git, Node and Python, Homebrew is processed strictly
\* first (no other tool begins before Homebrew has been processed), Node and
\* Python are in the same execution group, and both begin only after
\* Homebrew has been processed.
C27_HomebrewFirstThenGroup ==
    /\ \A n \in {"Git", "Node", "Python"} :
          ToolBegun(n) => ToolProcessed("Homebrew")
    /\ installPc = "running" => SameGroup("Node", "Python")


\* the tools whose goroutine is inside MarkToolInstalled
Writers == {n \in DOMAIN tstate : tstate[n] = "marking"}

\* C29: during InstallAll no two concurrently running tools are inside
\* MarkToolInstalled on the shared State at the same time.
C29_SingleWriter == Cardinality(Writers) <= 1


\* the downloaded bytes have the released checksum
ChecksumMatches ==
    /\ findAssetForPlatform(release.assets) # 0
    /\ served[UpdateAsset.BrowserDownloadURL] = "good"

\* C28: Update renames the current executable away or overwrites it only
\* with a download whose checksum was verified: a download with another
\* checksum leaves the executable in place.
C28_ChecksumBeforeReplace == fs.exe # "old" => ChecksumMatches


(***************************************************************************)
(* Properties of the State Store in the runs of SetupAll (SpecSetup).      *)
(***************************************************************************)
\* the tasks this run of SetupAll executed with success
ConfiguredNow == {n \in DOMAIN sstate : sstate[n] = "configured"}

KeepsOthers(before, after, key) ==
    \A k \in DOMAIN before.kv \ {key} :
        k \in DOMAIN after.kv /\ after.kv[k] = before.kv[k]

\* C32: MarkToolInstalled(state, n, v, p) makes IsToolInstalled(state, n)
\* true, sets LastInstall and leaves every other Installed entry, the
\* Configured map, LastSetup and Version unchanged; MarkTaskConfigured(state,
\* n) makes IsTaskConfigured(state, n) true, sets LastSetup and leaves the
\* Installed map, every other Configured entry, LastInstall and Version
\* unchanged; neither removes an entry.
C32_MarkFrame ==
    [][lastMark' # lastMark =>
          IF lastMark'.op = "tool"
          THEN /\ IsToolInstalled(state', lastMark'.name)
               /\ state'.installed.kv[lastMark'.name] =
                      ToolState(lastMark'.version, lastMark'.path, lastMark'.now)
               /\ state'.last_install = lastMark'.now
               /\ KeepsOthers(state.installed, state'.installed, lastMark'.name)
               /\ DOMAIN state.installed.kv \subseteq DOMAIN state'.installed.kv
               /\ state'.configured = state.configured
               /\ state'.last_setup = state.last_setup
               /\ state'.version = state.version
          ELSE /\ IsTaskConfigured(state', lastMark'.name)
               /\ state'.last_setup = lastMark'.now
               /\ KeepsOthers(state.configured, state'.configured, lastMark'.name)
               /\ DOMAIN state.configured.kv \subseteq DOMAIN state'.configured.kv
               /\ state'.installed = state.installed
               /\ state'.last_install = state.last_install
               /\ state'.version = state.version]_vars

\* a second tool has been marked at a later moment: the entry of the first,
\* a configured entry and the earlier LastSetup are still there
C32_Witness ==
    /\ lastMark.n = MaxMarks
    /\ lastMark.op = "tool"
    /\ lastMark.name = "b"
    /\ lastMark.now = MaxClock
    /\ "a" \in DOMAIN state.installed.kv
    /\ state.installed.kv["a"].installed_at = Now
    /\ IsTaskConfigured(state, "b")
    /\ state.last_setup = Now
    /\ state.last_install = MaxClock


(***************************************************************************)
(* Properties of SaveState followed by LoadState (SpecRoundTrip).          *)
(***************************************************************************)
\* C33: after a SaveState that returned nil, LoadState returns a State with
\* the same installed tool names, each with the same version and path, the
\* same configured entries and the same Version, so IsToolInstalled and
\* IsTaskConfigured answer as before the save.
C33_RoundTrip ==
    (loaded.called /\ saveWarnings = 0) =>
        /\ ~loaded.nil
        /\ DOMAIN loaded.state.installed.kv = DOMAIN state.installed.kv
        /\ \A n \in DOMAIN state.installed.kv :
              /\ loaded.state.installed.kv[n].version =
                     state.installed.kv[n].version
              /\ loaded.state.installed.kv[n].path = state.installed.kv[n].path
        /\ loaded.state.configured.kv = state.configured.kv
        /\ loaded.state.version = state.version
        /\ \A n \in RoundTripNames \cup StoreNames :
              /\ IsToolInstalled(loaded.state, n) = IsToolInstalled(state, n)
              /\ IsTaskConfigured(loaded.state, n) = IsTaskConfigured(state, n)


Warnings(n) == Len(SelectSeq(events[n], LAMBDA e : e = "Warning"))

\* C35: when Execute has returned, with nil or with the error of a required
\* task, every task that is not required and failed has been reported by
\* exactly one Warning.
C35_OptionalFailuresWarned ==
    execPc \in {"returned_nil", "returned_err"} =>
        \A i \in 1..Len(tasks) :
            (~tasks[i].required /\ tk[tasks[i].name].result = "failed") =>
                Warnings(tasks[i].name) = 1


(***************************************************************************)
(* Properties of executeParallelGroup (SpecExec).                          *)
(***************************************************************************)
\* executeParallelGroup returns: wg.Wait() of line 168 is through
ParallelGroupReturns ==
    /\ execPc = "running" /\ cur.active /\ cur.name # ""
    /\ cur' = NoGroupKey \/ execPc' = "returned_err"

\* C36: executeParallelGroup holds one result slot per task of the group,
\* and when it returns every slot has been written by the goroutine of the
\* task at the same index, after that task's executeTask returned.
C36_OneResultPerTask ==
    /\ [](execPc = "running" /\ cur.active /\ cur.name # "" =>
             Len(parResults) = Len(execGroups[cur.name]))
    /\ [][ParallelGroupReturns =>
             \A i \in 1..Len(execGroups[cur.name]) :
                 /\ parResults[i].written
                 /\ parResults[i].task = execGroups[cur.name][i].name
                 /\ tk[execGroups[cur.name][i].name].pc = "done"
                 /\ parResults[i].result = tk[execGroups[cur.name][i].name].result
         ]_vars

\* a group of two tasks with different results, both stored
C36_Witness ==
    /\ execPc = "running" /\ cur.active /\ cur.name # ""
    /\ Len(parResults) >= 2
    /\ \A i \in 1..Len(parResults) : parResults[i].written
    /\ parResults[1].result # parResults[2].result


(***************************************************************************)
(* Properties of the Installed map during InstallAll (SpecInstall).        *)
(***************************************************************************)
InstalledNames == DOMAIN state.installed.kv

\* C37: a name enters State.Installed only in a run that is not a dry run,
\* by the MarkToolInstalled call of the tool of that name, and that call is
\* entered only from the tool's install command, when it ended with success.
C37_InstalledOnlyAfterInstall ==
    [][\A n \in DOMAIN tstate :
          /\ (n \notin InstalledNames /\ n \in InstalledNames') =>
                 /\ ~dryRun
                 /\ tstate[n] = "marking"
                 /\ tstate'[n] = "installed"
          /\ (tstate[n] # "marking" /\ tstate'[n] = "marking") =>
                 /\ ~dryRun
                 /\ tstate[n] = "installing"
      ]_vars

\* a run that installed one tool and passed over another whose check passed
C37_Witness ==
    /\ ~dryRun
    /\ \E n, m \in DOMAIN tstate :
          /\ tstate[n] = "installed" /\ n \in InstalledNames
          /\ tstate[m] = "already" /\ m \notin InstalledNames


(***************************************************************************)
(* Properties of skipped tasks under the run-wide deadline (SpecDeadline). *)
(***************************************************************************)
\* C38: a task is reported as skipped only when its condition command ran
\* and exited non-zero; a condition command that the deadline ended, or
\* kept from starting, does not make the task a skipped one.
C38_SkippedOnlyByCondition ==
    \A i \in 1..Len(tasks) :
        tk[tasks[i].name].result = "skipped" =>
            tk[tasks[i].name].cond = "unmet"


(***************************************************************************)
(* Properties of Execute for any concurrency limit (SpecLimit).            *)
(***************************************************************************)
\* C39: whatever maxConcurrent >= 0 the executor was made with, Execute on
\* tasks whose commands end eventually returns.
C39_ExecuteReturns == <>(execPc \in {"returned_nil", "returned_err"})


(***************************************************************************)
(* Properties of dry runs (SpecDryRun).                                    *)
(***************************************************************************)
\* C40: in a dry run no install command, setup task or stage task is run,
\* the State is not changed, SaveState is not called, and RunStage causes no
\* StartTask and does not create its state file.
C40_DryRunFrame ==
    [][dryRun =>
          /\ state' = state
          /\ disk' = disk
          /\ saveWarnings' = saveWarnings
          /\ stage'.file = stage.file
          /\ \A n \in DOMAIN tstate : tstate'[n] \notin {"installing", "marking"}
          /\ \A n \in DOMAIN sstate : sstate'[n] # "running"
          /\ execPc' = "idle"
          /\ \A n \in DOMAIN events : events'[n] = <<>>
      ]_vars

\* a dry run of RunStage on two tasks returned nil on a machine without a
\* state file
C40_Witness ==
    /\ dryRun
    /\ stage.pc = "returned_nil"
    /\ ~stage.file
    /\ Len(tasks) = 2

====
